---- MODULE Spec2Model ----
(***************************************************************************)
(* The graph-object model of plotly/graph_objs/graph_objs.py: PlotlyDict   *)
(* (Keyed Node), PlotlyList (Indexed Node), Figure, Data, Layout and the   *)
(* GraphObjectFactory, over a small schema document.                       *)
(*                                                                         *)
(* Python values are records tagged by their type in field k:              *)
(*   "None", "num", "str", "Column" (an object exposing .id and .name),    *)
(*   "list" (field v: sequence of values),                                 *)
(*   "dict" (field v: sequence of <<key, value>> pairs, insertion order),  *)
(*   "PlotlyDict" (name, d: function key -> value, parent, pkey),          *)
(*   "PlotlyList" (name, l: sequence, parent, pkey).                       *)
(* A back-reference _parent is modelled by the declared name of the        *)
(* container that set it ("None" while unset): the code only ever assigns  *)
(* `self` to it, at the moment the node is stored in `self`.               *)
(* An operation returns a record [err, val]: err is the class of the       *)
(* exception it raised, or "none" with its result in val.                  *)
(* The schema document is loaded when the module is imported; the role it  *)
(* declares for the autosize of a layout is in autosize_role.              *)
(***************************************************************************)
EXTENDS Integers, Sequences, FiniteSets, TLC

VARIABLES root, grid_ref, prev, last, steps, autosize_role

vars == <<root, grid_ref, prev, last, steps, autosize_role>>

(* ----------------------------- bounds -------------------------------- *)
MaxSteps == 1
MaxLen == 2

(* ----------------------------- values -------------------------------- *)
None == [k |-> "None"]
NoArg == [k |-> "noarg"]
Num(n) == [k |-> "num", v |-> n]
Str(s) == [k |-> "str", v |-> s]
Column(id) == [k |-> "Column", id |-> id]
RawList(s) == [k |-> "list", v |-> s]
RawDict(pairs) == [k |-> "dict", v |-> pairs]

Ok(val) == [err |-> "none", val |-> val]
Raise(err, val) == [err |-> err, val |-> val]

IsDict(v) == v.k \in {"dict", "PlotlyDict"}
IsList(v) == v.k \in {"list", "PlotlyList"}
IsPlotlyBase(v) == v.k \in {"PlotlyDict", "PlotlyList"}
IsString(v) == v.k = "str"

EmptyFn == [x \in {} |-> None]

RECURSIVE SetToSeq(_)
SetToSeq(S) ==
    IF S = {} THEN <<>>
    ELSE LET x == CHOOSE y \in S : TRUE IN <<x>> \o SetToSeq(S \ {x})

(* dict(value).items(): the pairs of a mapping, raw or node *)
Items(v) ==
    IF v.k = "dict" THEN v.v
    ELSE LET ks == SetToSeq(DOMAIN v.d)
         IN [i \in 1..Len(ks) |-> <<ks[i], v.d[ks[i]]>>]

(* list(value): the elements of a sequence, raw or node *)
Elements(v) == IF v.k = "list" THEN v.v ELSE v.l

(* ------------------------- schema document --------------------------- *)
TRACE_NAMES == {"scatter", "bar"}

ARRAYS == {"data", "annotations"}

OBJECTS ==
    TRACE_NAMES \cup {"figure", "data", "layout", "marker", "line", "xaxis",
                      "yaxis", "annotations", "annotation"}

ObjectParent(name) ==
    CASE name \in TRACE_NAMES -> {"data"}
      [] name \in {"data", "layout"} -> {"figure"}
      [] name = "marker" -> {"scatter", "bar"}
      [] name = "line" -> {"scatter"}
      [] name \in {"xaxis", "yaxis", "annotations"} -> {"layout"}
      [] name = "annotation" -> {"annotations"}
      [] OTHER -> {}

Attributes(name) ==
    CASE name = "figure" -> {"data", "layout"}
      [] name = "scatter" -> {"type", "x", "name", "marker", "line", "xaxis", "yaxis"}
      [] name = "bar" -> {"type", "x", "name", "marker", "xaxis", "yaxis"}
      [] name = "marker" -> {"size", "color"}
      [] name = "line" -> {"width", "color"}
      [] name = "layout" -> {"title", "autosize", "xaxis", "yaxis", "annotations"}
      [] name \in {"xaxis", "yaxis"} -> {"title", "range"}
      [] name = "annotation" -> {"text", "x"}
      [] OTHER -> {}

ItemNames(name) ==
    CASE name = "data" -> TRACE_NAMES
      [] name = "annotations" -> {"annotation"}
      [] OTHER -> {}

SchemaRole(name, key) ==
    CASE key = "autosize" /\ name = "layout" -> autosize_role
      [] key \in {"data", "layout", "marker", "line", "annotations"} -> "object"
      [] key \in {"xaxis", "yaxis"} /\ name = "layout" -> "object"
      [] key = "x" /\ name \in TRACE_NAMES -> "data"
      [] key \in {"size", "color", "width"} -> "style"
      [] OTHER -> "info"

ArrayOk(name, key) == key \in {"size", "color"} /\ name = "marker"

(* graph_objs_tools.get_role(node, key, value=None) *)
get_role(self, key, value) ==
    LET role == SchemaRole(self.name, key)
    IN  IF value # NoArg /\ value # None /\ ArrayOk(self.name, key)
           /\ IsList(value)
        THEN "data"
        ELSE role

(* the subclasses of exceptions.PlotlyGraphObjectError *)
PlotlyGraphObjectError ==
    {"PlotlyDictKeyError", "PlotlyDictValueError", "PlotlyListEntryError"}

(* graph_reference.attribute_is_array(attribute, parent_name) *)
attribute_is_array(attribute, parent_name) ==
    /\ attribute \in OBJECTS
    /\ parent_name \in ObjectParent(attribute)
    /\ attribute \in ARRAYS

(* ------------------------------ strings ------------------------------ *)
Digits == {"0", "1", "2", "3", "4", "5", "6", "7", "8", "9"}

endswith(s, suffix) ==
    /\ Len(s) >= Len(suffix)
    /\ SubSeq(s, Len(s) - Len(suffix) + 1, Len(s)) = suffix

startswith(s, prefix) ==
    /\ Len(s) >= Len(prefix)
    /\ SubSeq(s, 1, Len(prefix)) = prefix

(* re.search(r'(?P<digits>\d+$)', key): 0 when there is no match, else the
   position of the first character of the longest all-digit suffix *)
RECURSIVE DigitsStart(_, _)
DigitsStart(key, i) ==
    IF i >= 1 /\ SubSeq(key, i, i) \in Digits
    THEN DigitsStart(key, i - 1)
    ELSE IF i = Len(key) THEN 0 ELSE i + 1

(* PlotlyDict.is_src_key *)
is_src_key(self, key) ==
    IF ~endswith(key, "src") THEN FALSE
    ELSE LET root_key == SubSeq(key, 1, Len(key) - 3)
         IN  root_key \in Attributes(self.name)

(* Layout._get_subplot_key: the root name, or "None" *)
subplot_key_strings ==
    {"xaxis", "yaxis", "zaxis", "lataxis", "lonaxis", "radialaxis",
     "angularaxis", "geo", "scene"}

(* Layout._get_subplot_key without the test for a leading zero *)
Layout_get_subplot_key_zero(self, key) ==
    LET start == DigitsStart(key, Len(key))
    IN  IF start = 0 THEN "None"
        ELSE LET root_key == SubSeq(key, 1, start - 1)
                 digits == SubSeq(key, start, Len(key))
             IN  IF /\ root_key \in Attributes(self.name)
                    /\ get_role(self, root_key, NoArg) = "object"
                    /\ root_key \in subplot_key_strings
                 THEN root_key
                 ELSE "None"

Layout_get_subplot_key(self, key) ==
    LET start == DigitsStart(key, Len(key))
    IN  IF start = 0 THEN "None"
        ELSE LET root_key == SubSeq(key, 1, start - 1)
                 digits == SubSeq(key, start, Len(key))
             IN  IF /\ root_key \in Attributes(self.name)
                    /\ get_role(self, root_key, NoArg) = "object"
                    /\ ~startswith(digits, "0")
                    /\ root_key \in subplot_key_strings
                 THEN root_key
                 ELSE "None"

(* assign_id_to_src returning the column object instead of its id *)
assign_id_to_src_object(src_name, src_value) ==
    IF IsString(src_value)
    THEN IF src_value.v = ""
         THEN Raise("AttributeError", None)
         ELSE Ok(src_value)
    ELSE IF src_value.k # "Column"
         THEN Raise("InputError", None)
         ELSE IF src_value.id = ""
              THEN Raise("InputError", None)
              ELSE Ok(src_value)

(* graph_objs_tools.assign_id_to_src *)
assign_id_to_src(src_name, src_value) ==
    IF IsString(src_value)
    THEN IF src_value.v = ""
         THEN Raise("AttributeError", None)   \* ''.name, while formatting
         ELSE Ok(src_value)
    ELSE IF src_value.k # "Column"
         THEN Raise("InputError", None)        \* no `id` property
         ELSE IF src_value.id = ""
              THEN Raise("InputError", None)   \* column not yet uploaded
              ELSE Ok(Str(src_value.id))

(* ------------------------------- nodes ------------------------------- *)
NewDict(name) ==
    [k |-> "PlotlyDict", name |-> name, d |-> EmptyFn,
     parent |-> "None", pkey |-> "None"]

NewList(name) ==
    [k |-> "PlotlyList", name |-> name, l |-> <<>>,
     parent |-> "None", pkey |-> "None"]

(* dict.__setitem__ / list.append of the base classes *)
Store(self, key, value) ==
    [self EXCEPT !.d = [x \in (DOMAIN self.d) \cup {key} |->
                            IF x = key THEN value ELSE self.d[x]]]

Remove(self, key) ==
    [self EXCEPT !.d = [x \in (DOMAIN self.d) \ {key} |-> self.d[x]]]

SetParent(value, self) == [value EXCEPT !.parent = self.name]

SetParentKey(value, self, key) ==
    [value EXCEPT !.parent = self.name, !.pkey = key]

RECURSIVE GraphObjectFactory_create(_, _, _)
RECURSIVE PlotlyDict_init(_, _, _)
RECURSIVE InitItems(_, _, _, _)
RECURSIVE PlotlyList_init(_, _, _)
RECURSIVE InitElements(_, _, _, _)
RECURSIVE PlotlyDict_setitem(_, _, _, _)
RECURSIVE Layout_setitem(_, _, _, _)
RECURSIVE setitem(_, _, _, _)
RECURSIVE PlotlyDict_value_to_graph_object(_, _, _, _)
RECURSIVE PlotlyList_value_to_graph_object(_, _, _, _)
RECURSIVE TryItems(_, _, _, _, _)
RECURSIVE Data_value_to_graph_object(_, _, _, _)
RECURSIVE list_value_to_graph_object(_, _, _, _)
RECURSIVE PlotlyList_append(_, _)

(* PlotlyDict.value_to_graph_object: both branches convert through the
   factory, the array branch wants a list and the other one a dict *)
PlotlyDict_value_to_graph_object(self, key, value, raise) ==
    IF attribute_is_array(key, self.name)
    THEN IF ~IsList(value)
         THEN IF raise THEN Raise("PlotlyDictValueError", None) ELSE Ok(None)
         ELSE GraphObjectFactory_create(key, value, raise)
    ELSE IF ~IsDict(value)
         THEN IF raise THEN Raise("PlotlyDictValueError", None) ELSE Ok(None)
         ELSE GraphObjectFactory_create(key, value, raise)

(* the end of __setitem__ for an object-role key: r is the result of
   value_to_graph_object, and only a graph object is stored, with its parent *)
StoreGraphObject(self, key, r) ==
    IF r.err # "none" THEN Raise(r.err, self)
    ELSE IF IsPlotlyBase(r.val)
    THEN Ok(Store(self, key, SetParentKey(r.val, self, key)))
    ELSE Ok(self)

(* PlotlyDict.__setitem__ without the early return of a non-strict write to
   an undeclared key *)
PlotlyDict_setitem_fallthrough(self, key, value, raise) ==
    IF ~IsString(key)
    THEN IF raise THEN Raise("TypeError", self) ELSE Ok(self)
    ELSE IF is_src_key(self, key.v)
    THEN LET r == assign_id_to_src(key.v, value)
         IN  IF r.err # "none" THEN Raise(r.err, self)
             ELSE Ok(Store(self, key.v, r.val))
    ELSE IF key.v \notin Attributes(self.name) /\ raise
    THEN Raise("PlotlyDictKeyError", self)
    ELSE IF get_role(self, key.v, NoArg) = "object"
    THEN StoreGraphObject(self, key.v,
             PlotlyDict_value_to_graph_object(self, key.v, value, raise))
    ELSE Ok(Store(self, key.v, value))

(* PlotlyDict.__setitem__ storing the raw value when the conversion of an
   object-role value gives no graph object *)
PlotlyDict_setitem_raw(self, key, value, raise) ==
    IF ~IsString(key)
    THEN IF raise THEN Raise("TypeError", self) ELSE Ok(self)
    ELSE IF is_src_key(self, key.v)
    THEN LET r == assign_id_to_src(key.v, value)
         IN  IF r.err # "none" THEN Raise(r.err, self)
             ELSE Ok(Store(self, key.v, r.val))
    ELSE IF key.v \notin Attributes(self.name)
    THEN IF raise THEN Raise("PlotlyDictKeyError", self) ELSE Ok(self)
    ELSE IF get_role(self, key.v, NoArg) = "object"
    THEN LET r == PlotlyDict_value_to_graph_object(self, key.v, value, raise)
         IN  IF r.err # "none" THEN Raise(r.err, self)
             ELSE IF IsPlotlyBase(r.val)
             THEN Ok(Store(self, key.v, SetParentKey(r.val, self, key.v)))
             ELSE Ok(Store(self, key.v, value))
    ELSE Ok(Store(self, key.v, value))

(* PlotlyDict.__setitem__ *)
PlotlyDict_setitem(self, key, value, raise) ==
    IF ~IsString(key)
    THEN IF raise THEN Raise("TypeError", self) ELSE Ok(self)
    ELSE IF is_src_key(self, key.v)
    THEN LET r == assign_id_to_src(key.v, value)
         IN  IF r.err # "none" THEN Raise(r.err, self)
             ELSE Ok(Store(self, key.v, r.val))
    ELSE IF key.v \notin Attributes(self.name)
    THEN IF raise THEN Raise("PlotlyDictKeyError", self) ELSE Ok(self)
    ELSE IF get_role(self, key.v, NoArg) = "object"
    THEN StoreGraphObject(self, key.v,
             PlotlyDict_value_to_graph_object(self, key.v, value, raise))
    ELSE Ok(Store(self, key.v, value))

(* Layout.__setitem__ *)
Layout_setitem(self, key, value, raise) ==
    IF ~IsString(key)
    THEN IF raise THEN Raise("TypeError", self) ELSE Ok(self)
    ELSE IF Layout_get_subplot_key(self, key.v) = "None"
    THEN PlotlyDict_setitem(self, key, value, raise)
    ELSE StoreGraphObject(self, key.v,
             PlotlyDict_value_to_graph_object(
                 self, Layout_get_subplot_key(self, key.v), value, raise))

(* self.__setitem__(key, value, _raise) on the class of self *)
setitem(self, key, value, raise) ==
    IF self.name = "layout"
    THEN Layout_setitem(self, key, value, raise)
    ELSE PlotlyDict_setitem(self, key, value, raise)

(* an exception leaving a constructor: no object is made *)
Constructed(r) == IF r.err # "none" THEN Raise(r.err, None) ELSE r

(* the loop of PlotlyDict.__init__ over the items of its argument; r is the
   result of the write of item i *)
InitItemsNext(r, pairs, i, raise) ==
    IF r.err # "none" THEN Raise(r.err, None)
    ELSE InitItems(r.val, pairs, i + 1, raise)

InitItems(self, pairs, i, raise) ==
    IF i > Len(pairs) THEN Ok(self)
    ELSE InitItemsNext(setitem(self, Str(pairs[i][1]), pairs[i][2], raise),
                       pairs, i, raise)

(* PlotlyDict.__init__: a trace class first writes its own type *)
TraceType(self) ==
    IF self.name \in TRACE_NAMES
    THEN setitem(self, Str("type"), Str(self.name), TRUE).val
    ELSE self

(* Figure.__init__ after the constructor of the base class: r is its result *)
Figure_init(name, r) ==
    IF r.err # "none" THEN r
    ELSE IF name = "figure" /\ "data" \notin DOMAIN r.val.d
    THEN Constructed(setitem(r.val, Str("data"), RawList(<<>>), TRUE))
    ELSE r

(* PlotlyDict.__init__ and Figure.__init__ *)
PlotlyDict_init(name, arg, raise) ==
    Figure_init(name,
                InitItems(TraceType(NewDict(name)),
                          IF arg = NoArg THEN <<>> ELSE Items(arg), 1, raise))

(* PlotlyList.value_to_graph_object: the permitted items are tried in turn *)
TryItemsNext(self, items, i, value, raise, r) ==
    IF r.err = "none" THEN r
    ELSE IF r.err \in PlotlyGraphObjectError
    THEN IF i = Len(items) /\ raise THEN r
         ELSE TryItems(self, items, i + 1, value, raise)
    ELSE r

TryItems(self, items, i, value, raise) ==
    IF i > Len(items) THEN Ok(None)
    ELSE TryItemsNext(self, items, i, value, raise,
                      GraphObjectFactory_create(items[i], value, raise))

PlotlyList_value_to_graph_object(self, index, value, raise) ==
    IF ~IsDict(value)
    THEN IF raise THEN Raise("PlotlyListEntryError", None) ELSE Ok(None)
    ELSE TryItems(self, SetToSeq(ItemNames(self.name)), 1, value, raise)

(* value.get('type', 'bar'): another default trace type *)
TypeOf_bar(value) ==
    LET pairs == Items(value)
        idx == {i \in 1..Len(pairs) : pairs[i][1] = "type"}
    IN  IF idx = {} THEN Str("bar")
        ELSE pairs[CHOOSE i \in idx : \A j \in idx : j <= i][2]

(* value.get('type', 'scatter') *)
TypeOf(value) ==
    LET pairs == Items(value)
        idx == {i \in 1..Len(pairs) : pairs[i][1] = "type"}
    IN  IF idx = {} THEN Str("scatter")
        ELSE pairs[CHOOSE i \in idx : \A j \in idx : j <= i][2]

(* Data.value_to_graph_object *)
Data_value_to_graph_object(self, index, value, raise) ==
    IF ~IsDict(value)
    THEN IF raise THEN Raise("PlotlyListEntryError", None) ELSE Ok(None)
    ELSE LET item == TypeOf(value)
         IN  IF (~IsString(item) \/ item.v \notin ItemNames(self.name)) /\ raise
             THEN Raise("PlotlyListEntryError", None)
             ELSE IF ~IsString(item) THEN Raise("Exception", None)
             ELSE GraphObjectFactory_create(item.v, value, raise)

list_value_to_graph_object(self, index, value, raise) ==
    IF self.name = "data"
    THEN Data_value_to_graph_object(self, index, value, raise)
    ELSE PlotlyList_value_to_graph_object(self, index, value, raise)

(* the end of PlotlyList.append: r is the converted value; None has no
   __dict__ to take the parent *)
AppendObject(self, r) ==
    IF r.err # "none" THEN Raise(r.err, self)
    ELSE IF ~IsPlotlyBase(r.val) THEN Raise("AttributeError", self)
    ELSE Ok([self EXCEPT !.l = Append(self.l, SetParent(r.val, self))])

(* PlotlyList.append storing the value before it is converted *)
PlotlyList_append_early(self, value) ==
    LET r == list_value_to_graph_object(self, Len(self.l), value, TRUE)
    IN  IF r.err # "none"
        THEN Raise(r.err, [self EXCEPT !.l = Append(self.l, value)])
        ELSE IF ~IsPlotlyBase(r.val) THEN Raise("AttributeError", self)
        ELSE Ok([self EXCEPT !.l = Append(self.l, SetParent(r.val, self))])

(* PlotlyList.append *)
PlotlyList_append(self, value) ==
    AppendObject(self, list_value_to_graph_object(self, Len(self.l), value,
                                                  TRUE))

(* the loop of PlotlyList.__init__ over the elements of its argument; r is
   the converted element i and a the result of appending it *)
InitElementsNext(a, elems, i, raise) ==
    IF a.err # "none" THEN Raise(a.err, None)
    ELSE InitElements(a.val, elems, i + 1, raise)

InitElement(self, elems, i, raise, r) ==
    IF r.err # "none" THEN Raise(r.err, None)
    ELSE IF IsPlotlyBase(r.val)
    THEN InitElementsNext(PlotlyList_append(self, r.val), elems, i, raise)
    ELSE InitElements(self, elems, i + 1, raise)

InitElements(self, elems, i, raise) ==
    IF i > Len(elems) THEN Ok(self)
    ELSE InitElement(self, elems, i, raise,
                     list_value_to_graph_object(self, i - 1, elems[i], raise))

(* PlotlyList.__init__ *)
PlotlyList_init(name, arg, raise) ==
    IF arg # NoArg /\ IsDict(arg) THEN Raise("PlotlyListEntryError", None)
    ELSE IF arg # NoArg /\ ~IsList(arg) THEN Raise("TypeError", None)
    ELSE InitElements(NewList(name),
                      IF arg = NoArg THEN <<>> ELSE Elements(arg), 1, raise)

(* GraphObjectFactory.create(object_name, *args, _raise=...) *)
GraphObjectFactory_create(object_name, arg, raise) ==
    IF object_name \notin OBJECTS THEN Raise("Exception", None)
    ELSE IF object_name \in ARRAYS
    THEN PlotlyList_init(object_name, arg, raise)
    ELSE PlotlyDict_init(object_name, arg, raise)

(* ---------------------------- operations ---------------------------- *)
(* the end of __missing__ storing the object without its back-references *)
StoreMissing_noparent(self, key, r) ==
    IF r.err # "none" THEN Raise(r.err, self)
    ELSE Ok(Store(self, key, r.val))

(* the end of __missing__: r is the object the factory made for the key *)
StoreMissing(self, key, r) ==
    IF r.err # "none" THEN Raise(r.err, self)
    ELSE Ok(Store(self, key, SetParentKey(r.val, self, key)))

(* PlotlyDict.__missing__ *)
PlotlyDict_missing(self, key) ==
    IF IsString(key) /\ key.v \in Attributes(self.name)
       /\ get_role(self, key.v, NoArg) = "object"
    THEN StoreMissing(self, key.v,
                      GraphObjectFactory_create(key.v, NoArg, TRUE))
    ELSE Ok(self)

(* Layout.__missing__ without the inference of the subplot key *)
Layout_missing_plain(self, key) ==
    IF ~IsString(key) THEN Raise("TypeError", self)
    ELSE PlotlyDict_missing(self, key)

(* Layout.__missing__ *)
Layout_missing(self, key) ==
    IF ~IsString(key) THEN Raise("TypeError", self)
    ELSE IF Layout_get_subplot_key(self, key.v) = "None"
    THEN PlotlyDict_missing(self, key)
    ELSE StoreMissing(self, key.v,
             GraphObjectFactory_create(Layout_get_subplot_key(self, key.v),
                                       NoArg, TRUE))

(* PlotlyDict.__getitem__: [err, val: self afterwards, ret: the value read];
   m is self after __missing__ had its chance, then the built-in read *)
dict_getitem(key, m) ==
    IF m.err # "none" THEN [err |-> m.err, val |-> m.val, ret |-> None]
    ELSE IF IsString(key) /\ key.v \in DOMAIN m.val.d
    THEN [err |-> "none", val |-> m.val, ret |-> m.val.d[key.v]]
    ELSE [err |-> "KeyError", val |-> m.val, ret |-> None]

PlotlyDict_getitem(self, key) ==
    dict_getitem(key,
                 IF IsString(key) /\ key.v \in DOMAIN self.d THEN Ok(self)
                 ELSE IF self.name = "layout" THEN Layout_missing(self, key)
                 ELSE PlotlyDict_missing(self, key))

(* list.__setitem__ and list.insert of the base class, on a valid position *)
ListPut(l, pos, value) == [i \in 1..Len(l) |-> IF i = pos THEN value ELSE l[i]]

ListIns(l, pos, value) ==
    [i \in 1..(Len(l) + 1) |->
        IF i < pos THEN l[i] ELSE IF i = pos THEN value ELSE l[i - 1]]

(* the end of PlotlyList.__setitem__: r is the converted value *)
PutObject(self, index, r) ==
    IF r.err # "none" THEN Raise(r.err, self)
    ELSE IF ~IsPlotlyBase(r.val) THEN Ok(self)
    ELSE IF index.v < 0 - Len(self.l) THEN Raise("IndexError", self)
    ELSE LET pos == IF index.v < 0 THEN Len(self.l) + index.v + 1
                    ELSE index.v + 1
         IN  Ok([self EXCEPT !.l = ListPut(self.l, pos, SetParent(r.val, self))])

(* PlotlyList.__setitem__ *)
PlotlyList_setitem(self, index, value, raise) ==
    IF index.k # "num"
    THEN IF raise THEN Raise("TypeError", self) ELSE Ok(self)
    ELSE IF index.v >= Len(self.l) THEN Raise("IndexError", self)
    ELSE PutObject(self, index,
                   list_value_to_graph_object(self, index.v, value, raise))

(* the end of PlotlyList.insert: r is the converted value *)
InsertObject(self, index, r) ==
    IF r.err # "none" THEN Raise(r.err, self)
    ELSE IF ~IsPlotlyBase(r.val) THEN Raise("AttributeError", self)
    ELSE LET n == Len(self.l)
             i0 == IF index < 0 THEN n + index ELSE index
             pos == IF i0 < 0 THEN 1 ELSE IF i0 > n THEN n + 1 ELSE i0 + 1
         IN  Ok([self EXCEPT !.l = ListIns(self.l, pos, SetParent(r.val, self))])

(* PlotlyList.insert *)
PlotlyList_insert(self, index, value) ==
    InsertObject(self, index,
                 list_value_to_graph_object(self, index, value, TRUE))

(* PlotlyList.extend: each item is converted and appended in turn *)
RECURSIVE ExtendLoop(_, _, _)
ExtendNext(self, elems, i, r) ==
    IF r.err # "none" THEN Raise(r.err, self)
    ELSE ExtendLoop([self EXCEPT !.l = Append(self.l, r.val)], elems, i + 1)

ExtendLoop(self, elems, i) ==
    IF i > Len(elems) THEN Ok(self)
    ELSE ExtendNext(self, elems, i,
                    list_value_to_graph_object(self, Len(self.l), elems[i],
                                               TRUE))

PlotlyList_extend(self, iterable) ==
    IF ~IsList(iterable) THEN Raise("TypeError", self)
    ELSE ExtendLoop(self, Elements(iterable), 1)

(* dict.update of a plain mapping *)
RECURSIVE RawPut(_, _, _)
RawPut(pairs, key, value) ==
    IF pairs = <<>> THEN << <<key, value>> >>
    ELSE IF Head(pairs)[1] = key THEN << <<key, value>> >> \o Tail(pairs)
    ELSE <<Head(pairs)>> \o RawPut(Tail(pairs), key, value)

RECURSIVE RawUpdate(_, _, _)
RawUpdate(pairs, new, i) ==
    IF i > Len(new) THEN pairs
    ELSE RawUpdate(RawPut(pairs, new[i][1], new[i][2]), new, i + 1)

RECURSIVE PlotlyDict_update(_, _)
RECURSIVE UpdateItems(_, _, _)
RECURSIVE PlotlyList_update(_, _)
RECURSIVE UpdateElements(_, _, _)
RECURSIVE update(_, _)

(* value.update(changes) on the class of value *)
update(self, changes) ==
    IF self.k = "PlotlyDict" THEN PlotlyDict_update(self, changes)
    ELSE IF self.k = "PlotlyList" THEN PlotlyList_update(self, changes)
    ELSE IF self.k = "dict"
    THEN IF IsDict(changes)
         THEN Ok(RawDict(RawUpdate(self.v, Items(changes), 1)))
         ELSE Raise("TypeError", self)
    ELSE Raise("AttributeError", self)

(* self[key].update(val): c is the result on the child, mutated in place *)
UpdatedChild(self, key, c) == Raise(c.err, Store(self, key, c.val))

(* the loop of PlotlyDict.update over dict1.items(); r is the result of
   item i *)
UpdateItemsNext(r, pairs, i) ==
    IF r.err # "none" THEN r ELSE UpdateItems(r.val, pairs, i + 1)

(* PlotlyDict.update writing every entry, also over a graph object *)
UpdateItem_replace(self, key, val) == setitem(self, Str(key), val, TRUE)

UpdateItem(self, key, val) ==
    IF key \in DOMAIN self.d /\ IsPlotlyBase(self.d[key])
    THEN UpdatedChild(self, key, update(self.d[key], val))
    ELSE setitem(self, Str(key), val, TRUE)

UpdateItems(self, pairs, i) ==
    IF i > Len(pairs) THEN Ok(self)
    ELSE UpdateItemsNext(UpdateItem(self, pairs[i][1], pairs[i][2]), pairs, i)

(* PlotlyDict.update(dict1) *)
PlotlyDict_update(self, dict1) ==
    IF dict1 = None THEN Ok(self)
    ELSE IF ~IsDict(dict1) THEN Raise("AttributeError", self)
    ELSE UpdateItems(self, Items(dict1), 1)

(* self[index].update(...): c is the result on the element, mutated in
   place; then the next index *)
UpdateElementsNext(self, changes, index, c) ==
    IF c.err # "none"
    THEN Raise(c.err, [self EXCEPT !.l = ListPut(self.l, index + 1, c.val)])
    ELSE UpdateElements([self EXCEPT !.l = ListPut(self.l, index + 1, c.val)],
                        changes, index + 1)

(* the loop of PlotlyList.update stopping at the end of changes instead of
   cycling through them *)
UpdateElements_nocycle(self, changes, index) ==
    IF index >= Len(self.l) THEN Ok(self)
    ELSE IF Len(changes) = 0 \/ index >= Len(changes)
    THEN UpdateElements(self, changes, index + 1)
    ELSE UpdateElementsNext(self, changes, index,
                            update(self.l[index + 1], changes[index + 1]))

(* the loop of PlotlyList.update over range(len(self)); index is 0-based *)
UpdateElements(self, changes, index) ==
    IF index >= Len(self.l) THEN Ok(self)
    ELSE IF Len(changes) = 0
    THEN UpdateElements(self, changes, index + 1)    \* ZeroDivisionError: pass
    ELSE UpdateElementsNext(self, changes, index,
                            update(self.l[index + 1],
                                   changes[(index % Len(changes)) + 1]))

(* PlotlyList.update(changes) *)
PlotlyList_update(self, changes) ==
    IF IsDict(changes) THEN UpdateElements(self, <<changes>>, 0)
    ELSE IF IsList(changes) THEN UpdateElements(self, Elements(changes), 0)
    ELSE IF Len(self.l) = 0 THEN Ok(self)
    ELSE Raise("TypeError", self)                    \* len(changes)

(* --------------------- strip_style and force_clean ------------------- *)
Reverse(s) == [i \in 1..Len(s) |-> s[Len(s) - i + 1]]

(* list(self.keys()): the order of the keys of a dict is the order of their
   insertion, which the tree does not record; one order or its reverse *)
KeysOf(self, rev) ==
    IF rev THEN Reverse(SetToSeq(DOMAIN self.d)) ELSE SetToSeq(DOMAIN self.d)

RECURSIVE strip_style(_, _)
RECURSIVE StripKeys(_, _, _, _)
RECURSIVE StripElements(_, _, _)
RECURSIVE force_clean(_)
RECURSIVE CleanKeys(_, _, _)
RECURSIVE CleanElements(_, _)

(* PlotlyDict.strip_style asking for the role of the key without its value *)
StripKey_novalue(self, key) ==
    IF get_role(self, key, NoArg) = "style"
    THEN IF self.name = "layout" /\ key = "autosize"
         THEN Raise("KeyError", Remove(self, key))
         ELSE Ok(Remove(self, key))
    ELSE IF self.name = "layout" /\ key = "autosize"
    THEN Ok(Remove(self, key))
    ELSE Ok(self)

(* PlotlyDict.strip_style on a key whose value is no graph object: a style
   value is deleted, and autosize of a layout is deleted (again) *)
StripKey(self, key) ==
    IF get_role(self, key, self.d[key]) = "style"
    THEN IF self.name = "layout" /\ key = "autosize"
         THEN Raise("KeyError", Remove(self, key))
         ELSE Ok(Remove(self, key))
    ELSE IF self.name = "layout" /\ key = "autosize"
    THEN Ok(Remove(self, key))
    ELSE Ok(self)

(* the loop of PlotlyDict.strip_style iterating over the dict itself instead
   of a copy of its keys: the key after a deleted one is skipped *)
StripKeysNext_live(r, keys, i, rev) ==
    IF r.err # "none" THEN r
    ELSE IF keys[i] \notin DOMAIN r.val.d
    THEN StripKeys(r.val, keys, i + 2, rev)
    ELSE StripKeys(r.val, keys, i + 1, rev)

(* the loop of PlotlyDict.strip_style over the keys; r is the result of
   key i *)
StripKeysNext(r, keys, i, rev) ==
    IF r.err # "none" THEN r ELSE StripKeys(r.val, keys, i + 1, rev)

StripKeys(self, keys, i, rev) ==
    IF i > Len(keys) THEN Ok(self)
    ELSE StripKeysNext(
             IF IsPlotlyBase(self.d[keys[i]])
             THEN UpdatedChild(self, keys[i], strip_style(self.d[keys[i]], rev))
             ELSE StripKey(self, keys[i]),
             keys, i, rev)

(* PlotlyDict.strip_style *)
PlotlyDict_strip_style(self, rev) == StripKeys(self, KeysOf(self, rev), 1, rev)

(* the loop of PlotlyList.strip_style; c is the result on element i, and an
   element that is no graph object has no strip_style *)
StripElementsNext(self, i, rev, c) ==
    IF c.err # "none"
    THEN Raise(c.err, [self EXCEPT !.l = ListPut(self.l, i, c.val)])
    ELSE StripElements([self EXCEPT !.l = ListPut(self.l, i, c.val)], i + 1, rev)

StripElements(self, i, rev) ==
    IF i > Len(self.l) THEN Ok(self)
    ELSE IF ~IsPlotlyBase(self.l[i]) THEN Raise("AttributeError", self)
    ELSE StripElementsNext(self, i, rev, strip_style(self.l[i], rev))

(* PlotlyList.strip_style *)
PlotlyList_strip_style(self, rev) == StripElements(self, 1, rev)

strip_style(self, rev) ==
    IF self.k = "PlotlyDict" THEN PlotlyDict_strip_style(self, rev)
    ELSE PlotlyList_strip_style(self, rev)

(* len(value) = 0 of a dict or a list, graph object or not *)
IsEmptyCollection(value) ==
    \/ value.k = "PlotlyDict" /\ DOMAIN value.d = {}
    \/ value.k = "PlotlyList" /\ value.l = <<>>
    \/ value.k \in {"dict", "list"} /\ value.v = <<>>

(* self[key].force_clean(caller=False) inside try/except AttributeError: the
   value keeps what was cleaned before the error *)
CleanValue(value) == IF IsPlotlyBase(value) THEN force_clean(value).val ELSE value

(* PlotlyDict.force_clean deleting every dict or list, whatever its length *)
DropEmpty_anylen(self, key) ==
    IF self.d[key].k \in {"PlotlyDict", "PlotlyList", "dict", "list"}
       \/ self.d[key] = None
    THEN Remove(self, key)
    ELSE self

(* the end of the loop body of PlotlyDict.force_clean: an empty collection
   and None are deleted *)
DropEmpty(self, key) ==
    IF IsEmptyCollection(self.d[key]) \/ self.d[key] = None
    THEN Remove(self, key)
    ELSE self

(* PlotlyDict.force_clean testing the length of a value before the value is
   cleaned *)
CleanKeys_topdown(self, keys, i) ==
    IF i > Len(keys) THEN self
    ELSE CleanKeys(IF IsEmptyCollection(self.d[keys[i]])
                      \/ self.d[keys[i]] = None
                   THEN Remove(self, keys[i])
                   ELSE Store(self, keys[i], CleanValue(self.d[keys[i]])),
                   keys, i + 1)

CleanKeys(self, keys, i) ==
    IF i > Len(keys) THEN self
    ELSE CleanKeys(DropEmpty(Store(self, keys[i], CleanValue(self.d[keys[i]])),
                             keys[i]),
                   keys, i + 1)

(* PlotlyDict.force_clean *)
PlotlyDict_force_clean(self) ==
    Ok(CleanKeys(self, SetToSeq(DOMAIN self.d), 1))

(* the loop of PlotlyList.force_clean over the entries; c is the result on
   entry i *)
CleanElementsNext(self, i, c) ==
    IF c.err # "none"
    THEN Raise(c.err, [self EXCEPT !.l = ListPut(self.l, i, c.val)])
    ELSE CleanElements([self EXCEPT !.l = ListPut(self.l, i, c.val)], i + 1)

CleanElements(self, i) ==
    IF i > Len(self.l) THEN Ok(self)
    ELSE IF ~IsPlotlyBase(self.l[i]) THEN Raise("AttributeError", self)
    ELSE CleanElementsNext(self, i, force_clean(self.l[i]))

(* the end of PlotlyList.force_clean: r is self after the loop, and the
   entries of length 0 are deleted *)
DropEmptyEntries(r) ==
    IF r.err # "none" THEN r
    ELSE Ok([r.val EXCEPT !.l =
                SelectSeq(r.val.l, LAMBDA e : ~IsEmptyCollection(e))])

(* PlotlyList.force_clean *)
PlotlyList_force_clean(self) == DropEmptyEntries(CleanElements(self, 1))

force_clean(self) ==
    IF self.k = "PlotlyDict" THEN PlotlyDict_force_clean(self)
    ELSE PlotlyList_force_clean(self)

(* ------------------------------ get_data ----------------------------- *)
(* the result of a read: err, val (self afterwards) and ret (the value
   returned) *)
Ret(err, val, ret) == [err |-> err, val |-> val, ret |-> ret]

RECURSIVE get_data(_)
RECURSIVE DataOfKeys(_, _, _, _)
RECURSIVE DataOfElements(_, _, _)

(* PlotlyDict.get_data on a key whose value is no graph object: d[key] = val
   when the role is data, and for the name of a trace *)
DataOfValue(self, key, d) ==
    IF \/ get_role(self, key, self.d[key]) = "data"
       \/ self.name \in TRACE_NAMES /\ key = "name"
    THEN RawPut(d, key, self.d[key])
    ELSE d

(* the end of PlotlyDict.get_data: the keys of d whose value is a dict or a
   list of length 0 are deleted *)
DropEmptyPairs(d) == SelectSeq(d, LAMBDA pair : ~IsEmptyCollection(pair[2]))

(* the loop of PlotlyDict.get_data over self.items(), flatten=False; d is the
   result so far and c the result of val.get_data() on the child at key i *)
DataOfKeysNext(self, keys, i, d, c) ==
    IF c.err # "none" THEN Ret(c.err, Store(self, keys[i], c.val), None)
    ELSE DataOfKeys(Store(self, keys[i], c.val), keys, i + 1,
                    RawPut(d, keys[i], c.ret))

DataOfKeys(self, keys, i, d) ==
    IF i > Len(keys) THEN Ret("none", self, RawDict(DropEmptyPairs(d)))
    ELSE IF IsPlotlyBase(self.d[keys[i]])
    THEN DataOfKeysNext(self, keys, i, d, get_data(self.d[keys[i]]))
    ELSE DataOfKeys(self, keys, i + 1, DataOfValue(self, keys[i], d))

(* PlotlyDict.get_data(flatten=False) *)
PlotlyDict_get_data(self) == DataOfKeys(self, SetToSeq(DOMAIN self.d), 1, <<>>)

(* the loop of PlotlyList.get_data, flatten=False; l is the result so far and
   c the result on element i.  After the loop the elements of length 0 are
   deleted from self, and l is returned as it is. *)
DataOfElementsNext(self, i, l, c) ==
    IF c.err # "none"
    THEN Ret(c.err, [self EXCEPT !.l = ListPut(self.l, i, c.val)], None)
    ELSE DataOfElements([self EXCEPT !.l = ListPut(self.l, i, c.val)], i + 1,
                        Append(l, c.ret))

DataOfElements(self, i, l) ==
    IF i > Len(self.l)
    THEN Ret("none",
             [self EXCEPT !.l = SelectSeq(self.l,
                                          LAMBDA e : ~IsEmptyCollection(e))],
             RawList(l))
    ELSE IF ~IsPlotlyBase(self.l[i]) THEN Ret("AttributeError", self, None)
    ELSE DataOfElementsNext(self, i, l, get_data(self.l[i]))

(* PlotlyList.get_data(flatten=False), and Data.get_data, which calls it *)
PlotlyList_get_data(self) == DataOfElements(self, 1, <<>>)

(* Figure.get_data: self.data.get_data(); g is the result of the read of
   self.data and c the result on the data *)
Figure_data_get_data(self, c) == Ret(c.err, Store(self, "data", c.val), c.ret)

Figure_get_data_of(g) ==
    IF g.err # "none" THEN Ret("AttributeError", g.val, None)
    ELSE Figure_data_get_data(g.val, get_data(g.ret))

Figure_get_data(self) == Figure_get_data_of(PlotlyDict_getitem(self, Str("data")))

get_data(self) ==
    IF self.k = "PlotlyList" THEN PlotlyList_get_data(self)
    ELSE IF self.name = "figure" THEN Figure_get_data(self)
    ELSE PlotlyDict_get_data(self)

(* the keys named in a raw mapping *)
KeysIn(pairs) == {pairs[i][1] : i \in 1..Len(pairs)}

(* dict(pairs)[key]: the last value given for the key *)
ValueOf(pairs, key) ==
    pairs[CHOOSE i \in 1..Len(pairs) :
              /\ pairs[i][1] = key
              /\ \A j \in 1..Len(pairs) : pairs[j][1] = key => j <= i][2]

(* ------------------------ get_data(flatten=True) --------------------- *)
(* "{0}".format(value) *)
Format(value) ==
    IF IsString(value) THEN value.v
    ELSE IF value.k = "num" THEN ToString(value.v)
    ELSE IF value = None THEN "None"
    ELSE "object"

(* "{0}.{1}".format(key, sub_key) *)
Dot(key, sub_key) == key \o "." \o sub_key

(* for sub_key, sub_val in sub_data.items(): d[key.sub_key] = sub_val *)
RECURSIVE PutPrefixed(_, _, _, _)
PutPrefixed(d, prefix, pairs, i) ==
    IF i > Len(pairs) THEN d
    ELSE PutPrefixed(RawPut(d, Dot(prefix, pairs[i][1]), pairs[i][2]),
                     prefix, pairs, i + 1)

RECURSIVE get_data_flat(_)
RECURSIVE FlatOfKeys(_, _, _, _)
RECURSIVE FlatOfElements(_, _, _)

(* the loop of PlotlyDict.get_data over self.items(), flatten=True; c is the
   result of val.get_data(flatten=True) on the child at key i *)
FlatOfKeysNext(self, keys, i, d, c) ==
    IF c.err # "none" THEN Ret(c.err, Store(self, keys[i], c.val), None)
    ELSE FlatOfKeys(Store(self, keys[i], c.val), keys, i + 1,
                    PutPrefixed(d, keys[i], c.ret.v, 1))

FlatOfKeys(self, keys, i, d) ==
    IF i > Len(keys) THEN Ret("none", self, RawDict(DropEmptyPairs(d)))
    ELSE IF IsPlotlyBase(self.d[keys[i]])
    THEN FlatOfKeysNext(self, keys, i, d, get_data_flat(self.d[keys[i]]))
    ELSE FlatOfKeys(self, keys, i + 1, DataOfValue(self, keys[i], d))

(* PlotlyDict.get_data(flatten=True) *)
PlotlyDict_get_data_flat(self) ==
    FlatOfKeys(self, SetToSeq(DOMAIN self.d), 1, <<>>)

(* [v.get_data(flatten=True) for v in self]; l is the list so far and c the
   result on element i *)
FlatOfElementsNext(self, i, l, c) ==
    IF c.err # "none"
    THEN Ret(c.err, [self EXCEPT !.l = ListPut(self.l, i, c.val)], None)
    ELSE FlatOfElements([self EXCEPT !.l = ListPut(self.l, i, c.val)], i + 1,
                        Append(l, c.ret))

FlatOfElements(self, i, l) ==
    IF i > Len(self.l) THEN Ret("none", self, RawList(l))
    ELSE IF ~IsPlotlyBase(self.l[i]) THEN Ret("AttributeError", self, None)
    ELSE FlatOfElementsNext(self, i, l, get_data_flat(self.l[i]))

(* the end of PlotlyList.get_data(flatten=True): d["i.k"] = v for the items
   of element i of l *)
RECURSIVE IndexPrefixed(_, _, _)
IndexPrefixed(l, i, d) ==
    IF i > Len(l) THEN d
    ELSE IndexPrefixed(l, i + 1, PutPrefixed(d, ToString(i - 1), l[i].v, 1))

(* PlotlyList.get_data(flatten=True): r is the result of the loop; the
   elements of length 0 are deleted from self *)
PlotlyList_flattened(r) ==
    IF r.err # "none" THEN r
    ELSE Ret("none",
             [r.val EXCEPT !.l = SelectSeq(r.val.l,
                                           LAMBDA e : ~IsEmptyCollection(e))],
             RawDict(IndexPrefixed(r.ret.v, 1, <<>>)))

PlotlyList_get_data_flat(self) == PlotlyList_flattened(FlatOfElements(self, 1, <<>>))

(* x in taken_names *)
InSeq(x, seq) == \E i \in 1..Len(seq) : seq[i] = x

(* trace.pop('name', 'trace_{0}'.format(i)) *)
TraceName(trace, i) ==
    IF "name" \in KeysIn(trace.v) THEN ValueOf(trace.v, "name")
    ELSE Str("trace_" \o ToString(i))

(* "{0}_{1}".format(trace_name, j) *)
Suffixed(trace_name, j) == Str(Format(trace_name) \o "_" \o ToString(j))

(* the while loop of Data.get_data: the new name is formatted with j before
   j is incremented *)
RECURSIVE Rename(_, _, _, _)
Rename(trace_name, new_trace_name, j, taken_names) ==
    IF InSeq(new_trace_name, taken_names)
    THEN Rename(trace_name, Suffixed(trace_name, j), j + 1, taken_names)
    ELSE new_trace_name

UniqueName(trace_name, taken_names) ==
    IF InSeq(trace_name, taken_names)
    THEN Rename(trace_name, Suffixed(trace_name, 1), 1, taken_names)
    ELSE trace_name

(* taken_names after the loop over the traces from trace i on *)
RECURSIVE TakenNames(_, _, _)
TakenNames(data, i, taken_names) ==
    IF i > Len(data) THEN taken_names
    ELSE TakenNames(data, i + 1,
                    Append(taken_names,
                           UniqueName(TraceName(data[i], i - 1), taken_names)))

(* the dot-concatenation: d["name.k"] = v for the items left in trace i *)
RECURSIVE NamePrefixed(_, _, _, _)
NamePrefixed(data, names, i, d) ==
    IF i > Len(data) THEN d
    ELSE NamePrefixed(data, names, i + 1,
             PutPrefixed(d, Format(names[i]),
                         SelectSeq(data[i].v, LAMBDA pair : pair[1] # "name"),
                         1))

(* Data.get_data(flatten=True): r is the result of the comprehension *)
Data_flattened(r) ==
    IF r.err # "none" THEN r
    ELSE Ret("none", r.val,
             RawDict(NamePrefixed(r.ret.v, TakenNames(r.ret.v, 1, <<>>), 1,
                                  <<>>)))

Data_get_data_flat(self) == Data_flattened(FlatOfElements(self, 1, <<>>))

(* Figure.get_data(flatten=True): g is the result of the read of self.data *)
Figure_get_data_flat_of(g) ==
    IF g.err # "none" THEN Ret("AttributeError", g.val, None)
    ELSE Figure_data_get_data(g.val, get_data_flat(g.ret))

Figure_get_data_flat(self) ==
    Figure_get_data_flat_of(PlotlyDict_getitem(self, Str("data")))

get_data_flat(self) ==
    IF self.k = "PlotlyList"
    THEN IF self.name = "data" THEN Data_get_data_flat(self)
         ELSE PlotlyList_get_data_flat(self)
    ELSE IF self.name = "figure" THEN Figure_get_data_flat(self)
    ELSE PlotlyDict_get_data_flat(self)

(* ------------------------------ paths -------------------------------- *)
(* A path is a sequence of steps from the root: Str(key) into a PlotlyDict,
   Num(i) (0-based) into a PlotlyList. *)
Child(node, step) ==
    IF node.k = "PlotlyDict" THEN node.d[step.v] ELSE node.l[step.v + 1]

Steps(node) ==
    IF node.k = "PlotlyDict" THEN {Str(key) : key \in DOMAIN node.d}
    ELSE IF node.k = "PlotlyList" THEN {Num(i - 1) : i \in 1..Len(node.l)}
    ELSE {}

RECURSIVE NodeAt(_, _)
NodeAt(node, path) ==
    IF path = <<>> THEN node ELSE NodeAt(Child(node, Head(path)), Tail(path))

RECURSIVE ReplaceAt(_, _, _)
ReplaceAt(node, path, new) ==
    IF path = <<>> THEN new
    ELSE LET sub == ReplaceAt(Child(node, Head(path)), Tail(path), new)
         IN  IF node.k = "PlotlyDict" THEN Store(node, Head(path).v, sub)
             ELSE [node EXCEPT !.l = ListPut(node.l, Head(path).v + 1, sub)]

(* the paths of all graph objects in the tree under node *)
RECURSIVE NodePaths(_)
NodePaths(node) ==
    {<<>>} \cup UNION {{<<s>> \o p : p \in NodePaths(Child(node, s))} :
                        s \in {t \in Steps(node) : IsPlotlyBase(Child(node, t))}}

DictPaths == {p \in NodePaths(root) : NodeAt(root, p).k = "PlotlyDict"}
ListPaths == {p \in NodePaths(root) : NodeAt(root, p).k = "PlotlyList"}

(* ------------------------ get_path, get_parents ---------------------- *)
(* a value as == of dict and list compares it: by its entries, whatever its
   class and its back-references *)
RECURSIVE Content(_)
Content(v) ==
    IF v.k = "PlotlyDict"
    THEN [k |-> "dict", d |-> [key \in DOMAIN v.d |-> Content(v.d[key])]]
    ELSE IF v.k = "dict"
    THEN [k |-> "dict",
          d |-> [key \in KeysIn(v.v) |-> Content(ValueOf(v.v, key))]]
    ELSE IF v.k = "PlotlyList"
    THEN [k |-> "list", l |-> [i \in 1..Len(v.l) |-> Content(v.l[i])]]
    ELSE IF v.k = "list"
    THEN [k |-> "list", l |-> [i \in 1..Len(v.v) |-> Content(v.v[i])]]
    ELSE v

(* list.index(value), 0-based: the position of the first element equal to
   value *)
list_index(l, value) ==
    (CHOOSE i \in 1..Len(l) :
        /\ Content(l[i]) = Content(value)
        /\ \A j \in 1..(i - 1) : Content(l[j]) # Content(value)) - 1

Front(path) == SubSeq(path, 1, Len(path) - 1)

(* the loop of get_parents: the paths of self._parent, of its _parent and so
   on, nearest first, until a node without _parent *)
RECURSIVE ParentChain(_, _)
ParentChain(tree, path) ==
    IF path = <<>> \/ NodeAt(tree, path).parent = "None" THEN <<>>
    ELSE <<Front(path)>> \o ParentChain(tree, Front(path))

(* PlotlyDict.get_parents: the paths of the ancestors, after the reverse *)
get_parents(tree, path) == Reverse(ParentChain(tree, path))

(* the body of the loop of get_path over zip(parents, children): the parent
   key of the child under a PlotlyDict, parent.index(child) under a list *)
PathStep(tree, parent, child) ==
    IF NodeAt(tree, parent).k = "PlotlyDict"
    THEN IF NodeAt(tree, child).pkey = "None" THEN None
         ELSE Str(NodeAt(tree, child).pkey)
    ELSE Num(list_index(NodeAt(tree, parent).l, NodeAt(tree, child)))

(* PlotlyDict.get_path: parents nearest first, children = [self] +
   parents[:-1], and the steps reversed at the end *)
get_path(tree, path) ==
    LET parents == ParentChain(tree, path)
        children == <<path>> \o SubSeq(parents, 1, Len(parents) - 1)
    IN  Reverse([i \in 1..Len(parents) |->
                    PathStep(tree, parents[i], children[i])])

(* node.get_path() and node.get_parents() of the node at path: PlotlyList
   defines neither *)
Method_get_path(tree, path) ==
    IF NodeAt(tree, path).k = "PlotlyList"
    THEN Ret("AttributeError", NodeAt(tree, path), None)
    ELSE Ret("none", NodeAt(tree, path), RawList(get_path(tree, path)))

Method_get_parents(tree, path) ==
    IF NodeAt(tree, path).k = "PlotlyList"
    THEN Ret("AttributeError", NodeAt(tree, path), None)
    ELSE Ret("none", NodeAt(tree, path),
             RawList([i \in 1..Len(get_parents(tree, path)) |->
                         NodeAt(tree, get_parents(tree, path)[i])]))

(* ------------------------- __copy__, __deepcopy__ -------------------- *)
(* PlotlyDict.__copy__: GraphObjectFactory.create(self._name, **self) *)
PlotlyDict_copy(self) == GraphObjectFactory_create(self.name, self, TRUE)

(* PlotlyList.__copy__: GraphObjectFactory.create(self._name, *self), every
   element a positional argument of PlotlyList.__init__, which refuses a
   dict as its first argument and hands all its arguments to list *)
PlotlyList_copy(self) ==
    IF self.l = <<>> THEN GraphObjectFactory_create(self.name, NoArg, TRUE)
    ELSE IF IsDict(self.l[1]) THEN Raise("PlotlyListEntryError", None)
    ELSE IF Len(self.l) > 1 THEN Raise("TypeError", None)
    ELSE GraphObjectFactory_create(self.name, self.l[1], TRUE)

(* copy.copy(node) and copy.deepcopy(node): the node is left as it is and
   the copy returned *)
CopyOf(self, r) == Ret(r.err, self, r.val)

copy(self) ==
    IF self.k = "PlotlyDict" THEN CopyOf(self, PlotlyDict_copy(self))
    ELSE CopyOf(self, PlotlyList_copy(self))

(* --------------------------- Figure methods -------------------------- *)
(* trace[key] = value on the caller's trace: a plain dict store, or the
   validated write when the trace is a graph object *)
TraceSet(trace, key, value) ==
    IF trace.k = "dict" THEN Ok(RawDict(RawPut(trace.v, key, value)))
    ELSE IF trace.k = "PlotlyDict" THEN setitem(trace, Str(key), value, TRUE)
    ELSE Raise("TypeError", trace)

(* Figure.append_trace after the checks of the grid; ref is the cell
   <<xref, yref>> of the grid.
   h: data = self['data'], then data += [trace] (list.__iadd__, in place) and
   self['data'] = data *)
append_trace_data(trace, h) ==
    IF h.err # "none" THEN Raise(h.err, h.val)
    ELSE LET data1 == [h.ret EXCEPT !.l = Append(h.ret.l, trace)]
         IN  setitem(Store(h.val, "data", data1), Str("data"), data1, TRUE)

(* t2: trace['yaxis'] = ref[1] *)
append_trace_yaxis(self, t2) ==
    IF t2.err # "none" THEN Raise(t2.err, self)
    ELSE append_trace_data(t2.val, PlotlyDict_getitem(self, Str("data")))

(* t1: trace['xaxis'] = ref[0] *)
append_trace_xaxis(self, ref, t1) ==
    IF t1.err # "none" THEN Raise(t1.err, self)
    ELSE append_trace_yaxis(self, TraceSet(t1.val, "yaxis", Str(ref[2])))

(* g: self['layout'], which must hold both axes of the cell *)
append_trace_layout(ref, trace, g) ==
    IF g.err # "none" THEN Raise(g.err, g.val)
    ELSE IF \/ ("xaxis" \o SubSeq(ref[1], 2, Len(ref[1]))) \notin DOMAIN g.ret.d
            \/ ("yaxis" \o SubSeq(ref[2], 2, Len(ref[2]))) \notin DOMAIN g.ret.d
    THEN Raise("Exception", g.val)
    ELSE append_trace_xaxis(g.val, ref, TraceSet(trace, "xaxis", Str(ref[1])))

(* Figure.append_trace(trace, row, col); grid is self._grid_ref, <<>> when
   the figure has none.  The cells of the grid hold <<xref, yref>>. *)
Figure_append_trace(self, grid, trace, row, col) ==
    IF grid = <<>> THEN Raise("Exception", self)
    ELSE IF row <= 0 THEN Raise("Exception", self)
    ELSE IF col <= 0 THEN Raise("Exception", self)
    ELSE IF row > Len(grid) \/ col > Len(grid[row]) THEN Raise("Exception", self)
    ELSE append_trace_layout(grid[row][col], trace,
                             PlotlyDict_getitem(self, Str("layout")))

(* ------------------------------ inputs ------------------------------- *)
D0 == RawDict(<<>>)
Pair(key, value) == <<key, value>>
D1(key, value) == RawDict(<<Pair(key, value)>>)
D2(k1, v1, k2, v2) == RawDict(<<Pair(k1, v1), Pair(k2, v2)>>)
L12 == RawList(<<Num(1), Num(2)>>)

RECURSIVE SeqsUpTo(_, _)
SeqsUpTo(S, n) ==
    IF n = 0 THEN {<<>>}
    ELSE LET shorter == SeqsUpTo(S, n - 1)
         IN  shorter \cup {Append(s, x) : s \in {t \in shorter : Len(t) = n - 1},
                                          x \in S}

Grid1x1 == << << <<"x1", "y1">> >> >>
NoGrid == <<>>

TraceInputs ==
    { D0,
      D2("type", Str("bar"), "x", L12),
      D1("type", Str("nope")),
      D1("type", Str("line")),
      D2("bogus", Num(1), "name", Str("n")),
      D2("marker", D1("size", Num(5)), "name", Str("n")) }

LayoutInput ==
    RawDict(<<Pair("title", Str("t")), Pair("xaxis1", D0), Pair("yaxis1", D0),
              Pair("annotations", RawList(<<D1("text", Str("a"))>>))>>)

(* a layout with empty and None entries at two levels *)
SparseLayoutInput ==
    RawDict(<<Pair("title", Str("t")),
              Pair("annotations", RawList(<<D0>>)),
              Pair("xaxis", D2("range", RawList(<<>>), "title", None))>>)

(* a layout with the key of the legacy special case of strip_style *)
AutosizeLayoutInput == D2("autosize", Num(1), "title", Str("t"))

(* the roles a schema document may declare for the autosize of a layout *)
AutosizeRoles(arg) ==
    IF arg = AutosizeLayoutInput THEN {"info", "style", "data"} ELSE {"info"}

FigureInput ==
    D2("data", RawList(<<D2("type", Str("bar"), "x", L12),
                         D2("marker", D1("size", Num(5)), "name", Str("n"))>>),
       "layout", LayoutInput)

FigureInputs ==
    { NoArg,
      FigureInput,
      D2("bogus", Num(1), "data", RawList(<<D0>>)),
      D1("data", RawList(<<D2("xsrc", Num(5), "name", Str("n"))>>)),
      D1("data", Num(5)) }

CreateInputs ==
    {<<"data", RawList(s)>> : s \in SeqsUpTo(TraceInputs, MaxLen)}
    \cup {<<"data", D0>>}
    \cup {<<"figure", f>> : f \in FigureInputs}

(* data with the trace types of test_force_clean.py: deprecated trace names
   and a name that is no trace *)
LegacyTypeInputs ==
    { RawList(<<D2("type", Str("histogramx"), "x", L12),
                D2("type", Str("histogramy"), "x", L12)>>),
      RawList(<<D2("type", Str("line"), "x", L12)>>) }

(* key/value pairs for a write: every branch of __setitem__ with the
   values that tell its outcomes apart *)
ValuesFor(key) ==
    CASE key \in {Str("bogus"), Num(3)} -> {Num(5)}
      [] key = Str("xsrc") ->
            {Num(5), Str("c1"), Str(""), Column("c1"), Column("")}
      [] key = Str("x") -> {Num(5), L12}
      [] key = Str("type") -> {Str("bar")}
      [] key \in {Str("marker"), Str("yaxis2"), Str("yaxis01")} ->
            {Num(5), D0, D1("size", Num(5)), D1("title", Str("t")),
             D1("bogus", Num(1))}
      [] key \in {Str("data"), Str("annotations")} ->
            {Num(5), D0, RawList(<<D0>>), RawList(<<D1("type", Str("nope"))>>),
             RawList(<<D0, D1("bogus", Num(1))>>)} \cup LegacyTypeInputs

WriteKeys ==
    {Str("x"), Str("type"), Str("marker"), Str("bogus"), Str("xsrc"),
     Str("yaxis2"), Str("yaxis01"), Str("data"), Str("annotations"), Num(3)}

ReadKeys ==
    {Str("yaxis2"), Str("yaxis01"), Str("xaxis0"), Str("marker"), Str("title"),
     Str("layout"), Str("data"), Str("annotations"), Str("bogus"), Num(3)}

ElementValues ==
    {D0, D1("type", Str("bar")), D1("type", Str("nope")), D1("text", Str("a")),
     Num(5)}

Indices == {Num(0), Num(0 - 1), Num(5), Str("a")}

UpdateValues ==
    {D1("name", Str("u0")), D1("title", Str("u1")),
     D2("name", Str("u0"), "bogus", Num(1)),
     D2("title", Str("u1"), "bogus", Num(1)),
     D1("marker", D1("size", Num(7))),
     D1("data", RawList(<<D1("name", Str("u0")), D1("bogus", Num(1))>>)),
     D1("layout", D2("title", Str("u1"), "bogus", Num(1))),
     Num(5), None}

ElementUpdates ==
    {D1("x", Num(1)), D1("x", Num(2)), D2("x", Num(3), "bogus", Num(1)), Num(5)}

Cells == {<<1, 1>>, <<0, 1>>, <<1, 0>>, <<2, 1>>, <<1, 2>>}

(* ------------------------------ state -------------------------------- *)
InitInputs ==
    { [name |-> "figure", arg |-> NoArg, grid |-> NoGrid],
      [name |-> "figure", arg |-> D1("layout", LayoutInput), grid |-> Grid1x1],
      [name |-> "figure", arg |-> FigureInput, grid |-> Grid1x1],
      [name |-> "data", arg |-> RawList(<<D0, D2("type", Str("bar"), "x", L12)>>),
       grid |-> NoGrid],
      [name |-> "layout", arg |-> NoArg, grid |-> NoGrid],
      [name |-> "figure",
       arg |-> D1("data", RawList(<<
                  D2("type", Str("bar"),
                     "marker", D2("size", Num(5), "color", Str("red"))),
                  RawDict(<<Pair("x", L12), Pair("name", Str("n")),
                            Pair("marker", D1("size", L12))>>) >>)),
       grid |-> NoGrid],
      [name |-> "layout", arg |-> SparseLayoutInput, grid |-> NoGrid],
      [name |-> "layout", arg |-> AutosizeLayoutInput, grid |-> NoGrid],
      [name |-> "data", arg |-> RawList(<<D0, D0>>), grid |-> NoGrid] }

(* the root object right after its construction *)
Init ==
    \E in \in InitInputs :
        /\ autosize_role \in AutosizeRoles(in.arg)
        /\ root = GraphObjectFactory_create(in.name, in.arg, TRUE).val
        /\ grid_ref = in.grid
        /\ prev = root
        /\ last = [op |-> "init", path |-> <<>>, key |-> Str(in.name),
                   value |-> in.arg, raise |-> TRUE, err |-> "none",
                   ret |-> None]
        /\ steps = 0

(* the effect of a method of the node at path: the node is mutated in place *)
Done(op, path, key, value, raise, r, ret) ==
    /\ root' = ReplaceAt(root, path, r.val)
    /\ prev' = root
    /\ last' = [op |-> op, path |-> path, key |-> key, value |-> value,
                raise |-> raise, err |-> r.err, ret |-> ret]
    /\ steps' = steps + 1
    /\ UNCHANGED <<grid_ref, autosize_role>>

(* GraphObjectFactory.create(name, arg, _raise=raise): a new root *)
Created(name, arg, raise, r) ==
    /\ root' = IF r.err = "none" THEN r.val ELSE root
    /\ grid_ref' = IF r.err = "none" THEN NoGrid ELSE grid_ref
    /\ prev' = root
    /\ last' = [op |-> "create", path |-> <<>>, key |-> Str(name),
                value |-> arg, raise |-> raise, err |-> r.err, ret |-> None]
    /\ steps' = steps + 1
    /\ UNCHANGED autosize_role

Create ==
    /\ steps < MaxSteps
    /\ \E in \in CreateInputs, raise \in BOOLEAN :
         Created(in[1], in[2], raise,
                 GraphObjectFactory_create(in[1], in[2], raise))

(* node[key] = value, or node.__setitem__(key, value, _raise=False) *)
SetItem ==
    /\ steps < MaxSteps
    /\ \E path \in DictPaths, key \in WriteKeys, raise \in BOOLEAN :
       \E value \in ValuesFor(key) :
         Done("setitem", path, key, value, raise,
              setitem(NodeAt(root, path), key, value, raise), None)

(* a method of the node at path that returns a value *)
Returned(op, path, r) == Done(op, path, NoArg, NoArg, TRUE, r, r.ret)

(* node[key] *)
Read(path, key, r) == Done("getitem", path, key, NoArg, TRUE, r, r.ret)

GetItem ==
    /\ steps < MaxSteps
    /\ \E path \in DictPaths, key \in ReadKeys :
         Read(path, key, PlotlyDict_getitem(NodeAt(root, path), key))

(* node.append(value) *)
ListAppend ==
    /\ steps < MaxSteps
    /\ \E path \in ListPaths, value \in ElementValues :
         /\ Len(NodeAt(root, path).l) < MaxLen
         /\ Done("append", path, NoArg, value, TRUE,
                 PlotlyList_append(NodeAt(root, path), value), None)

(* node.insert(index, value) *)
ListInsert ==
    /\ steps < MaxSteps
    /\ \E path \in ListPaths, index \in {0, 1, 0 - 1}, value \in ElementValues :
         /\ Len(NodeAt(root, path).l) < MaxLen
         /\ Done("insert", path, Num(index), value, TRUE,
                 PlotlyList_insert(NodeAt(root, path), index, value), None)

(* node[index] = value, or node.__setitem__(index, value, _raise=False) *)
ListSetItem ==
    /\ steps < MaxSteps
    /\ \E path \in ListPaths, index \in Indices, value \in ElementValues,
          raise \in BOOLEAN :
         Done("list_setitem", path, index, value, raise,
              PlotlyList_setitem(NodeAt(root, path), index, value, raise), None)

(* node.extend(iterable) *)
ListExtend ==
    /\ steps < MaxSteps
    /\ \E path \in ListPaths, s \in SeqsUpTo(ElementValues, 2) :
         /\ Len(NodeAt(root, path).l) + Len(s) <= MaxLen
         /\ Done("extend", path, NoArg, RawList(s), TRUE,
                 PlotlyList_extend(NodeAt(root, path), RawList(s)), None)

(* node.update(changes) on a PlotlyDict *)
DictUpdate ==
    /\ steps < MaxSteps
    /\ \E path \in DictPaths, changes \in UpdateValues :
         Done("update", path, NoArg, changes, TRUE,
              PlotlyDict_update(NodeAt(root, path), changes), None)

(* node.update(changes) on a PlotlyList *)
ListUpdate ==
    /\ steps < MaxSteps
    /\ \E path \in ListPaths,
          changes \in {RawList(s) : s \in SeqsUpTo(ElementUpdates, 2)}
                      \cup {D1("x", Num(1)), None} :
         Done("list_update", path, NoArg, changes, TRUE,
              PlotlyList_update(NodeAt(root, path), changes), None)

(* fig.append_trace(trace, row, col) *)
AppendTrace ==
    /\ steps < MaxSteps
    /\ root.name = "figure"
    /\ \E trace \in ElementValues \ {Num(5)}, cell \in Cells :
         /\ "data" \in DOMAIN root.d => Len(root.d["data"].l) < MaxLen
         /\ Done("append_trace", <<>>, NoArg, trace, TRUE,
                 Figure_append_trace(root, grid_ref, trace, cell[1], cell[2]),
                 None)

(* node.strip_style() *)
StripStyle ==
    /\ steps < MaxSteps
    /\ \E path \in NodePaths(root), rev \in BOOLEAN :
         Done("strip_style", path, NoArg, NoArg, TRUE,
              strip_style(NodeAt(root, path), rev), None)

(* node.force_clean() *)
ForceClean ==
    /\ steps < MaxSteps
    /\ \E path \in NodePaths(root) :
         Done("force_clean", path, NoArg, NoArg, TRUE,
              force_clean(NodeAt(root, path)), None)

(* node.get_data() *)
GetData ==
    /\ steps < MaxSteps
    /\ \E path \in NodePaths(root) :
         Returned("get_data", path, get_data(NodeAt(root, path)))

(* node.get_path() *)
GetPath ==
    /\ steps < MaxSteps
    /\ \E path \in NodePaths(root) :
         Returned("get_path", path, Method_get_path(root, path))

(* node.get_parents() *)
GetParents ==
    /\ steps < MaxSteps
    /\ \E path \in NodePaths(root) :
         Returned("get_parents", path, Method_get_parents(root, path))

(* copy.copy(node), copy.deepcopy(node) *)
Copy ==
    /\ steps < MaxSteps
    /\ \E path \in NodePaths(root) :
         Returned("copy", path, copy(NodeAt(root, path)))

Next ==
    \/ Create
    \/ SetItem
    \/ GetItem
    \/ ListAppend
    \/ ListInsert
    \/ ListSetItem
    \/ ListExtend
    \/ DictUpdate
    \/ ListUpdate
    \/ AppendTrace
    \/ StripStyle
    \/ ForceClean
    \/ GetData
    \/ GetPath
    \/ GetParents
    \/ Copy

Spec == Init /\ [][Next]_vars

(* ----------------- deep update of a trace container ------------------ *)
MaxItems == 4
MaxChanges == 3

UpdateTraces == {D0, D2("type", Str("bar"), "x", L12)}

UpdateChanges == {D1("x", Num(7)), D1("x", Num(8)), D1("name", Str("u"))}

InitUpdate ==
    \E s \in SeqsUpTo(UpdateTraces, MaxItems) :
        /\ autosize_role = "info"
        /\ root = GraphObjectFactory_create("data", RawList(s), TRUE).val
        /\ grid_ref = NoGrid
        /\ prev = root
        /\ last = [op |-> "init", path |-> <<>>, key |-> Str("data"),
                   value |-> RawList(s), raise |-> TRUE, err |-> "none",
                   ret |-> None]
        /\ steps = 0

(* data.update(changes) *)
UpdateData ==
    /\ steps = 0
    /\ \E u \in SeqsUpTo(UpdateChanges, MaxChanges) :
         Done("list_update", <<>>, NoArg, RawList(u), TRUE,
              PlotlyList_update(root, RawList(u)), None)

SpecUpdate == InitUpdate /\ [][UpdateData]_vars

(* ------------------- flatten mode of the trace container ------------- *)
MaxTraces == 3

(* the names of the traces: none, strings that meet the suffixes and the
   default names, and a number *)
TraceNameInputs ==
    {NoArg, Str("n"), Str("n_1"), Str("trace_1"), Num(1), Str("1")}

NamedTrace(name) ==
    IF name = NoArg THEN D1("x", L12) ELSE D2("x", L12, "name", name)

(* trace containers with every choice of names, and a figure and a layout *)
FlattenInputs ==
    {[name |-> "data",
      arg |-> RawList([i \in 1..Len(names) |-> NamedTrace(names[i])])] :
        names \in SeqsUpTo(TraceNameInputs, MaxTraces)}
    \cup {[name |-> "figure", arg |-> FigureInput],
          [name |-> "layout", arg |-> SparseLayoutInput]}

InitFlatten ==
    \E in \in FlattenInputs :
        /\ autosize_role = "info"
        /\ root = GraphObjectFactory_create(in.name, in.arg, TRUE).val
        /\ grid_ref = NoGrid
        /\ prev = root
        /\ last = [op |-> "init", path |-> <<>>, key |-> Str(in.name),
                   value |-> in.arg, raise |-> TRUE, err |-> "none",
                   ret |-> None]
        /\ steps = 0

(* node.get_data(flatten=True) *)
GetDataFlat ==
    /\ steps = 0
    /\ \E path \in NodePaths(root) :
         Returned("get_data_flat", path, get_data_flat(NodeAt(root, path)))

SpecFlatten == InitFlatten /\ [][GetDataFlat]_vars

(* ------------------------------ claims ------------------------------- *)
Target == NodeAt(root, last.path)
TargetBefore == NodeAt(prev, last.path)

Dicts(tree) ==
    {NodeAt(tree, p) : p \in {q \in NodePaths(tree) :
                                 NodeAt(tree, q).k = "PlotlyDict"}}

Lists(tree) ==
    {NodeAt(tree, p) : p \in {q \in NodePaths(tree) :
                                 NodeAt(tree, q).k = "PlotlyList"}}

IsSubplotKey(node, key) ==
    node.name = "layout" /\ Layout_get_subplot_key(node, key) # "None"

Undeclared(node, key) ==
    /\ key \notin Attributes(node.name)
    /\ ~is_src_key(node, key)
    /\ ~IsSubplotKey(node, key)

(* C1: a validated write of a key that is not a declared attribute of the
   node (nor a src key, nor a numbered subplot key of a layout) raises
   PlotlyDictKeyError in strict mode; in non-strict mode it returns without
   error and the node is what it was before. *)
C1_UndeclaredKeyWrite ==
    (/\ last.op = "setitem"
     /\ IsString(last.key)
     /\ Undeclared(TargetBefore, last.key.v))
    => IF last.raise
       THEN last.err = "PlotlyDictKeyError"
       ELSE last.err = "none" /\ Target = TargetBefore /\ root = prev

C1_Witness ==
    /\ last.op = "setitem"
    /\ last.key = Str("bogus")
    /\ ~last.raise
    /\ last.err = "none"
    /\ DOMAIN Target.d # {}

(* C2: a single validated write (PlotlyDict set of one key, PlotlyList
   append, insert or item assignment) that raises in strict mode leaves the
   whole tree as it was before the call. *)
C2_FailedWriteLeavesTree ==
    (/\ last.op \in {"setitem", "append", "insert", "list_setitem"}
     /\ last.raise
     /\ last.err # "none")
    => root = prev

C2_Witness ==
    /\ last.op = "setitem"
    /\ last.key = Str("marker")
    /\ last.value = D1("bogus", Num(1))
    /\ last.raise
    /\ last.err = "PlotlyDictKeyError"
    /\ "marker" \in DOMAIN TargetBefore.d
    /\ root = prev

(* C3: an operation that applies several entries (PlotlyDict.update,
   PlotlyList.update, PlotlyList.extend) and raises part-way leaves the tree
   equal to its state before the call. *)
C3_NoPartialMutation ==
    (/\ last.op \in {"update", "list_update", "extend"}
     /\ last.err # "none")
    => root = prev

(* C4: every key stored in every PlotlyDict of the tree is a valid attribute
   of the node, or a src key whose stored value is a plain string, or, on a
   layout, an inferred numbered subplot key. *)
C4_StoredKeysValid ==
    \A node \in Dicts(root) : \A key \in DOMAIN node.d :
        \/ key \in Attributes(node.name)
        \/ is_src_key(node, key) /\ IsString(node.d[key])
        \/ IsSubplotKey(node, key)

C4_Witness ==
    /\ last.op = "setitem"
    /\ last.key = Str("xsrc")
    /\ last.value = Column("c1")
    /\ last.err = "none"
    /\ "xsrc" \in DOMAIN Target.d
    /\ Target.d["xsrc"] = Str("c1")
    /\ \E node \in Dicts(root) : "yaxis1" \in DOMAIN node.d

(* C5: every value stored in a PlotlyDict under a key whose schema role is
   object (a declared object attribute, or a numbered subplot key of a
   layout) is a PlotlyDict or a PlotlyList, never a raw mapping or sequence
   or any other value. *)
C5_ObjectRoleIsNode ==
    \A node \in Dicts(root) : \A key \in DOMAIN node.d :
        (\/ key \in Attributes(node.name)
               /\ SchemaRole(node.name, key) = "object"
         \/ IsSubplotKey(node, key))
        => IsPlotlyBase(node.d[key])

C5_Witness ==
    /\ last.op = "setitem"
    /\ ~last.raise
    /\ last.key = Str("marker")
    /\ last.value = Num(5)
    /\ last.err = "none"
    /\ "marker" \in DOMAIN Target.d
    /\ Target.d["marker"].k = "PlotlyDict"

(* C6: every element of every PlotlyList of the tree is a graph object whose
   declared name is one of the item names permitted by the list. *)
C6_ElementsValidated ==
    \A node \in Lists(root) : \A i \in 1..Len(node.l) :
        /\ IsPlotlyBase(node.l[i])
        /\ node.l[i].name \in ItemNames(node.name)

(* the type tag of a raw trace mapping: its last "type" entry, "scatter"
   when it has none *)
TagOf(raw) ==
    LET idx == {i \in 1..Len(raw.v) : raw.v[i][1] = "type"}
    IN  IF idx = {} THEN "scatter"
        ELSE raw.v[CHOOSE i \in idx : \A j \in idx : j <= i][2].v

(* C7: constructing Data from raw mappings in strict mode: when some element
   carries a type that is not a trace name the construction raises
   PlotlyListEntryError and no container is produced; otherwise, when it
   succeeds, element i is a node whose declared name is the type of input i,
   scatter when the input has no type. *)
C7_TypeDispatch ==
    (/\ last.op = "create"
     /\ last.key = Str("data")
     /\ last.raise
     /\ last.value.k = "list")
    => LET in == last.value.v
       IN  IF \E i \in 1..Len(in) : TagOf(in[i]) \notin TRACE_NAMES
           THEN last.err # "none" /\ root = prev
                /\ (TagOf(in[1]) \notin TRACE_NAMES
                        => last.err = "PlotlyListEntryError")
           ELSE last.err = "none" =>
                  /\ root.name = "data"
                  /\ Len(root.l) = Len(in)
                  /\ \A i \in 1..Len(in) : root.l[i].name = TagOf(in[i])

C7_Witness ==
    /\ last.op = "create"
    /\ last.key = Str("data")
    /\ last.raise
    /\ last.err = "none"
    /\ last.value = RawList(<<D0, D2("type", Str("bar"), "x", L12)>>)
    /\ root.l[1].name = "scatter"
    /\ root.l[2].name = "bar"

(* C8: in non-strict mode construction and validated writes raise no
   error. *)
C8_NonStrictNeverRaises ==
    (last.op \in {"create", "setitem", "list_setitem"} /\ ~last.raise)
    => last.err = "none"

(* C9 as stated: reading the missing key yaxis2 of a layout creates an
   empty yaxis node, stores it under yaxis2 and returns it; reading the
   missing key yaxis01 or xaxis0 raises PlotlyDictKeyError (the
   unknown-attribute error) and leaves the layout without the key. *)
C9_Read(error) ==
    (/\ last.op = "getitem"
     /\ TargetBefore.name = "layout"
     /\ IsString(last.key)
     /\ last.key.v \notin DOMAIN TargetBefore.d)
    => /\ last.key.v = "yaxis2" =>
            /\ last.err = "none"
            /\ last.ret = [NewDict("yaxis") EXCEPT !.parent = "layout",
                                                   !.pkey = "yaxis2"]
            /\ Target = Store(TargetBefore, "yaxis2", last.ret)
       /\ last.key.v \in {"yaxis01", "xaxis0"} =>
            /\ last.err = error
            /\ root = prev

C9_SubplotRead_Original == C9_Read("PlotlyDictKeyError")

(* C9 amended: as above, but the error raised for yaxis01 and xaxis0 is the
   built-in KeyError of the mapping read. *)
C9_SubplotRead == C9_Read("KeyError")

C9_Witness ==
    /\ last.op = "getitem"
    /\ last.key = Str("yaxis2")
    /\ prev = NewDict("layout")
    /\ root.d["yaxis2"].name = "yaxis"
    /\ last.ret = root.d["yaxis2"]

(* C10: a deep update of a PlotlyList of length n with the update list U
   leaves the number of elements unchanged; when U is not empty, every entry
   of U[i mod len(U)] is the entry of element i afterwards, for every i < n,
   and when U is empty no element changes. *)
C10_UpdateCycles ==
    (last.op = "list_update" /\ last.value.k = "list")
    => LET U == last.value.v
       IN  /\ Len(root.l) = Len(prev.l)
           /\ U = <<>> => root = prev
           /\ (U # <<>> /\ last.err = "none") =>
                \A i \in 0..(Len(root.l) - 1) :
                    LET upd == U[(i % Len(U)) + 1].v
                    IN  /\ \A j \in 1..Len(upd) :
                              /\ upd[j][1] \in DOMAIN root.l[i + 1].d
                              /\ root.l[i + 1].d[upd[j][1]] = upd[j][2]
                        /\ \A key \in DOMAIN prev.l[i + 1].d :
                              (\A j \in 1..Len(upd) : upd[j][1] # key)
                              => root.l[i + 1].d[key] = prev.l[i + 1].d[key]

C10_Witness ==
    /\ last.op = "list_update"
    /\ last.err = "none"
    /\ Len(prev.l) = 4
    /\ last.value = RawList(<<D1("x", Num(7)), D1("x", Num(8))>>)
    /\ root.l[1].d["x"] = Num(7)
    /\ root.l[2].d["x"] = Num(8)
    /\ root.l[3].d["x"] = Num(7)
    /\ root.l[4].d["x"] = Num(8)
(* the input restricted to its role-data entries, read off the tree that was
   built from it: no style key, no info key, no empty mapping or sequence *)
RECURSIVE DataSubset(_)
RECURSIVE DataSubsetPairs(_, _, _)
DataSubsetPairs(node, keys, i) ==
    IF i > Len(keys) THEN <<>>
    ELSE IF IsPlotlyBase(node.d[keys[i]])
    THEN (IF IsEmptyCollection(DataSubset(node.d[keys[i]])) THEN <<>>
          ELSE <<Pair(keys[i], DataSubset(node.d[keys[i]]))>>)
         \o DataSubsetPairs(node, keys, i + 1)
    ELSE (IF get_role(node, keys[i], node.d[keys[i]]) = "data"
             /\ ~IsEmptyCollection(node.d[keys[i]])
          THEN <<Pair(keys[i], node.d[keys[i]])>>
          ELSE <<>>)
         \o DataSubsetPairs(node, keys, i + 1)

DataSubset(node) ==
    IF node.k = "PlotlyDict"
    THEN RawDict(DataSubsetPairs(node, SetToSeq(DOMAIN node.d), 1))
    ELSE RawList(SelectSeq([i \in 1..Len(node.l) |-> DataSubset(node.l[i])],
                           LAMBDA e : ~IsEmptyCollection(e)))

(* C11: get_data() of a figure built from a valid raw input returns the
   input restricted to its role-data entries: no style or info key, and no
   empty mapping or sequence anywhere (a trace without data entries is
   dropped). *)
C11_GetDataIsDataSubset ==
    (/\ last.op = "get_data" /\ last.path = <<>> /\ last.err = "none"
     /\ prev.name = "figure" /\ "data" \in DOMAIN prev.d)
    => last.ret = DataSubset(prev.d["data"])

(* C12: strip_style is idempotent: after a strip_style call, a second call on
   the same node raises no error and leaves the tree as the first call left
   it. *)
C12_StripStyleIdempotent ==
    (last.op = "strip_style" /\ last.err = "none")
    => \A rev \in BOOLEAN : strip_style(Target, rev) = Ok(Target)

C12_Witness ==
    /\ last.op = "strip_style" /\ last.err = "none" /\ last.path = <<>>
    /\ root.name = "figure"
    /\ "data" \in DOMAIN prev.d
    /\ Len(prev.d["data"].l) = 2
    /\ "marker" \in DOMAIN prev.d["data"].l[1].d
    /\ DOMAIN prev.d["data"].l[1].d["marker"].d = {"size", "color"}
    /\ DOMAIN root.d["data"].l[1].d["marker"].d = {}

(* the keys of node that are style by their scalar role and arrayOk, with a
   value that is no graph object *)
ArrayOkStyleKeys(node) ==
    {key \in DOMAIN node.d : /\ SchemaRole(node.name, key) = "style"
                              /\ ArrayOk(node.name, key)
                              /\ ~IsPlotlyBase(node.d[key])}

(* C13: strip_style removes an arrayOk style key whose value is a scalar and
   keeps, with its value, one whose value is a list of values. *)
C13_ArrayOkSurvivesStrip ==
    (last.op = "strip_style" /\ last.err = "none")
    => \A p \in {q \in NodePaths(prev) : NodeAt(prev, q).k = "PlotlyDict"} :
         \A key \in ArrayOkStyleKeys(NodeAt(prev, p)) :
           (\E i \in 0..Len(p) : SubSeq(p, 1, i) = last.path)
           => IF IsList(NodeAt(prev, p).d[key])
              THEN /\ key \in DOMAIN NodeAt(root, p).d
                   /\ NodeAt(root, p).d[key] = NodeAt(prev, p).d[key]
              ELSE key \notin DOMAIN NodeAt(root, p).d

C13_Witness ==
    /\ last.op = "strip_style" /\ last.err = "none" /\ last.path = <<>>
    /\ root.name = "figure"
    /\ "data" \in DOMAIN prev.d
    /\ Len(prev.d["data"].l) = 2
    /\ "marker" \in DOMAIN prev.d["data"].l[1].d
    /\ "marker" \in DOMAIN prev.d["data"].l[2].d
    /\ "size" \in DOMAIN prev.d["data"].l[1].d["marker"].d
    /\ prev.d["data"].l[1].d["marker"].d["size"] = Num(5)
    /\ "size" \notin DOMAIN root.d["data"].l[1].d["marker"].d
    /\ "size" \in DOMAIN root.d["data"].l[2].d["marker"].d
    /\ root.d["data"].l[2].d["marker"].d["size"] = L12

(* C14: after force_clean on a Keyed Node, no key of a Keyed Node of its
   subtree maps to None or to a container of length 0, and no Indexed Node of
   its subtree has an element of length 0: a container emptied by the
   deletions is deleted too. *)
C14_ForceCleanLeavesNoEmpty ==
    (last.op = "force_clean" /\ last.err = "none" /\ Target.k = "PlotlyDict")
    => /\ \A node \in Dicts(Target) : \A key \in DOMAIN node.d :
              node.d[key] # None /\ ~IsEmptyCollection(node.d[key])
       /\ \A node \in Lists(Target) : \A i \in 1..Len(node.l) :
              ~IsEmptyCollection(node.l[i])

C14_Witness ==
    /\ last.op = "force_clean" /\ last.err = "none" /\ last.path = <<>>
    /\ prev.name = "layout"
    /\ DOMAIN prev.d = {"title", "annotations", "xaxis"}
    /\ DOMAIN root.d = {"title"}

(* the tree without its None values and its containers of length 0, removed
   bottom-up; every other entry as it is *)
RECURSIVE Pruned(_)
Pruned(node) ==
    IF node.k = "PlotlyDict"
    THEN LET sub == [key \in DOMAIN node.d |->
                        IF IsPlotlyBase(node.d[key]) THEN Pruned(node.d[key])
                        ELSE node.d[key]]
             keep == {key \in DOMAIN node.d :
                         sub[key] # None /\ ~IsEmptyCollection(sub[key])}
         IN  [node EXCEPT !.d = [key \in keep |-> sub[key]]]
    ELSE IF node.k = "PlotlyList"
    THEN [node EXCEPT !.l =
             SelectSeq([i \in 1..Len(node.l) |-> Pruned(node.l[i])],
                       LAMBDA e : ~IsEmptyCollection(e))]
    ELSE node

(* every element of every Indexed Node of the tree is a graph object *)
AllElementsAreNodes(tree) ==
    \A node \in Lists(tree) : \A i \in 1..Len(node.l) : IsPlotlyBase(node.l[i])

(* C15: force_clean removes or changes no entry whose value is neither None
   nor a container of length 0: a trace with a valid type and a non-empty x
   is still in the data of the figure, with the same type and the same x. *)
C15_ForceCleanKeepsNonEmpty ==
    (last.op = "force_clean" /\ last.err = "none" /\ AllElementsAreNodes(prev))
    => Target = Pruned(TargetBefore)

C15_Witness ==
    /\ last.op = "force_clean" /\ last.err = "none" /\ last.path = <<>>
    /\ prev.name = "figure"
    /\ "data" \in DOMAIN prev.d /\ "data" \in DOMAIN root.d
    /\ Len(prev.d["data"].l) = 2
    /\ prev.d["data"].l[1].d = [type |-> Str("bar"), x |-> L12]
    /\ root.d["data"].l[1] = prev.d["data"].l[1]
    /\ root # prev

(* the valid type a legacy type is expected to become *)
CleanedType(type) ==
    IF type \in {Str("histogramx"), Str("histogramy")} THEN Str("histogram")
    ELSE Str("scatter")

(* C16: assigning to the data of a Figure traces whose type is a deprecated
   trace name (histogramx, histogramy) or no trace type (line) and calling
   force_clean raises nothing and leaves every trace in the data, with the
   type histogram for the deprecated names and scatter for the other. *)
C16_LegacyTypesCleaned ==
    (/\ last.op = "setitem" /\ last.path = <<>> /\ last.raise
     /\ prev.name = "figure" /\ last.key = Str("data")
     /\ last.value \in LegacyTypeInputs)
    => /\ last.err = "none"
       /\ force_clean(root).err = "none"
       /\ "data" \in DOMAIN force_clean(root).val.d
       /\ Len(force_clean(root).val.d["data"].l) = Len(last.value.v)
       /\ \A i \in 1..Len(last.value.v) :
              force_clean(root).val.d["data"].l[i].d["type"]
                  = CleanedType(TypeOf(last.value.v[i]))

(* C17: every node stored in a container has that container as its parent,
   a node stored in a Keyed Node has the key it is stored under as its parent
   key, and the root has no parent. *)
C17_ParentBackReferences ==
    /\ root.parent = "None"
    /\ \A node \in Dicts(root) : \A key \in DOMAIN node.d :
           IsPlotlyBase(node.d[key])
           => node.d[key].parent = node.name /\ node.d[key].pkey = key
    /\ \A node \in Lists(root) : \A i \in 1..Len(node.l) :
           IsPlotlyBase(node.l[i]) => node.l[i].parent = node.name

(* C18: a Figure holds, in every state after its construction, a data entry
   that is the trace container, also after force_clean, strip_style, update
   and get_data. *)
C18_FigureHoldsData ==
    root.name = "figure"
    => /\ "data" \in DOMAIN root.d
       /\ root.d["data"].k = "PlotlyList"
       /\ root.d["data"].name = "data"

(* the elements whose type is a trace type name, or that have no type *)
ValidTypeElements(elems) ==
    SelectSeq(elems, LAMBDA e : IsDict(e) /\ IsString(TypeOf(e))
                                /\ TypeOf(e).v \in TRACE_NAMES)

(* C19: constructing the trace container in non-strict mode from a list of
   mappings raises nothing: the elements whose type is no trace type name are
   dropped and the others are kept, validated, in their order. *)
C19_NonStrictDropsInvalidType ==
    (/\ last.op = "create" /\ last.key = Str("data") /\ ~last.raise
     /\ IsList(last.value)
     /\ \A i \in 1..Len(last.value.v) : IsDict(last.value.v[i]))
    => /\ last.err = "none"
       /\ root = GraphObjectFactory_create(
                     "data", RawList(ValidTypeElements(last.value.v)),
                     FALSE).val

(* C20: a strict write to a src key stores a string value as it is, whatever
   the string, and any other value as its id; when the value has no id or its
   id is empty, the write fails with the src-resolution error and nothing is
   stored. *)
C20_SrcKeyWrite ==
    (/\ last.op = "setitem" /\ last.raise /\ IsString(last.key)
     /\ is_src_key(TargetBefore, last.key.v))
    => IF IsString(last.value)
       THEN /\ last.err = "none"
            /\ Target = Store(TargetBefore, last.key.v, last.value)
       ELSE IF last.value.k = "Column" /\ last.value.id # ""
       THEN /\ last.err = "none"
            /\ Target = Store(TargetBefore, last.key.v, Str(last.value.id))
       ELSE last.err = "InputError" /\ root = prev

(* a subplot root name of the layout followed by digits, the first of them
   not 0 *)
SubplotRoots(key) ==
    {r \in subplot_key_strings \cap Attributes("layout") :
        /\ startswith(key, r)
        /\ Len(key) > Len(r)
        /\ \A i \in (Len(r) + 1)..Len(key) : SubSeq(key, i, i) \in Digits
        /\ SubSeq(key, Len(r) + 1, Len(r) + 1) # "0"}

(* C21: on a layout, for a string key k that is no declared attribute, the
   validated write and the read of the missing key agree on whether k is a
   numbered subplot key (a subplot root name followed by digits with no
   leading zero).  When it is, the write of a mapping that succeeds stores
   under k the node built from the mapping by the root name, and the read
   stores under k the empty node of the root name, both with the layout as
   parent and k as parent key; when it is not, neither stores anything. *)
C21_SubplotKeyInference ==
    (/\ last.op \in {"setitem", "getitem"}
     /\ TargetBefore.name = "layout"
     /\ IsString(last.key)
     /\ last.key.v \notin Attributes("layout")
     /\ last.key.v \notin DOMAIN TargetBefore.d
     /\ ~is_src_key(TargetBefore, last.key.v))
    => IF SubplotRoots(last.key.v) = {}
       THEN Target = TargetBefore
       ELSE \A r \in SubplotRoots(last.key.v) :
              IF last.op = "getitem"
              THEN /\ last.err = "none"
                   /\ Target = Store(TargetBefore, last.key.v,
                                     [NewDict(r) EXCEPT !.parent = "layout",
                                                        !.pkey = last.key.v])
                   /\ last.ret = Target.d[last.key.v]
              ELSE (last.err = "none" /\ IsDict(last.value))
                   => Target = Store(TargetBefore, last.key.v,
                                [GraphObjectFactory_create(r, last.value,
                                                           last.raise).val
                                 EXCEPT !.parent = "layout",
                                        !.pkey = last.key.v])

C21_Witness ==
    /\ last.op = "setitem" /\ last.err = "none"
    /\ last.key = Str("yaxis2") /\ last.value = D1("title", Str("t"))
    /\ TargetBefore.name = "layout"
    /\ "yaxis2" \in DOMAIN Target.d
    /\ Target.d["yaxis2"].name = "yaxis"
    /\ Target.d["yaxis2"].d = [title |-> Str("t")]
    /\ Target.d["yaxis2"].pkey = "yaxis2"

(* the empty node of a declared name *)
EmptyNode(name) == IF name \in ARRAYS THEN NewList(name) ELSE NewDict(name)

(* C22: reading a missing key that is a declared attribute of role object
   creates the empty node of that name, stores it under the key with the
   parent and the parent key set, and returns the stored node, as does the
   next read; reading a missing key of another role or an undeclared key (no
   numbered subplot key of a layout) leaves the node as it was. *)
C22_MissingObjectRead ==
    (/\ last.op = "getitem"
     /\ IsString(last.key)
     /\ last.key.v \notin DOMAIN TargetBefore.d
     /\ ~IsSubplotKey(TargetBefore, last.key.v))
    => IF /\ last.key.v \in Attributes(TargetBefore.name)
          /\ SchemaRole(TargetBefore.name, last.key.v) = "object"
       THEN /\ last.err = "none"
            /\ Target = Store(TargetBefore, last.key.v,
                              [EmptyNode(last.key.v)
                               EXCEPT !.parent = TargetBefore.name,
                                      !.pkey = last.key.v])
            /\ last.ret = Target.d[last.key.v]
            /\ PlotlyDict_getitem(Target, last.key)
                   = Ret("none", Target, last.ret)
       ELSE Target = TargetBefore /\ root = prev

C22_Witness ==
    /\ last.op = "getitem" /\ last.err = "none"
    /\ last.key = Str("marker")
    /\ TargetBefore.name = "scatter"
    /\ "marker" \notin DOMAIN TargetBefore.d
    /\ last.ret = [NewDict("marker") EXCEPT !.parent = "scatter",
                                            !.pkey = "marker"]
    /\ Target.d["marker"] = last.ret

(* C23: in a deep update of a Keyed Node that returns, a key whose value is
   a node is merged into: the child is the same node (name, parent, parent
   key), a Keyed child keeps every entry the update does not name and has
   the named entries that are no nodes overwritten, an Indexed child keeps
   its length; a key whose value is no node, or that is absent, has the
   value the validated write gives it. *)
C23_UpdateMerges ==
    (/\ last.op = "update" /\ last.err = "none" /\ last.value # None
     /\ IsDict(last.value))
    => \A i \in 1..Len(last.value.v) :
         LET key == last.value.v[i][1]
             val == last.value.v[i][2]
         IN  IF key \in DOMAIN TargetBefore.d
                /\ IsPlotlyBase(TargetBefore.d[key])
             THEN /\ key \in DOMAIN Target.d
                  /\ Target.d[key].k = TargetBefore.d[key].k
                  /\ Target.d[key].name = TargetBefore.d[key].name
                  /\ Target.d[key].parent = TargetBefore.d[key].parent
                  /\ Target.d[key].pkey = TargetBefore.d[key].pkey
                  /\ Target.d[key].k = "PlotlyList"
                       => Len(Target.d[key].l) = Len(TargetBefore.d[key].l)
                  /\ (Target.d[key].k = "PlotlyDict" /\ IsDict(val))
                       => /\ \A k2 \in DOMAIN TargetBefore.d[key].d
                                      \ KeysIn(Items(val)) :
                               /\ k2 \in DOMAIN Target.d[key].d
                               /\ Target.d[key].d[k2] = TargetBefore.d[key].d[k2]
                          /\ \A j \in 1..Len(Items(val)) :
                               SchemaRole(Target.d[key].name, Items(val)[j][1])
                                   # "object"
                               => /\ Items(val)[j][1] \in DOMAIN Target.d[key].d
                                  /\ Target.d[key].d[Items(val)[j][1]]
                                         = Items(val)[j][2]
             ELSE /\ setitem(TargetBefore, Str(key), val, TRUE).err = "none"
                  /\ key \in DOMAIN Target.d
                  /\ Target.d[key] =
                         setitem(TargetBefore, Str(key), val, TRUE).val.d[key]

C23_Witness ==
    /\ last.op = "update" /\ last.err = "none"
    /\ last.value = D1("marker", D1("size", Num(7)))
    /\ "marker" \in DOMAIN TargetBefore.d
    /\ TargetBefore.d["marker"].d = [size |-> Num(5), color |-> Str("red")]
    /\ Target.d["marker"].d = [size |-> Num(7), color |-> Str("red")]

(* C24: strip_style on a layout that holds the key autosize raises nothing
   and leaves the layout without autosize, whichever role the schema declares
   for autosize. *)
C24_AutosizeStripped ==
    (/\ last.op = "strip_style"
     /\ TargetBefore.name = "layout"
     /\ "autosize" \in DOMAIN TargetBefore.d)
    => /\ last.err = "none"
       /\ "autosize" \notin DOMAIN Target.d

(* C25: get_path of a Keyed Node returns the keys and indices that lead from
   the root to that very node, whatever the sibling elements hold, and
   get_parents returns its ancestors from the root to the immediate
   parent. *)
C25_PathReachesNode ==
    /\ (last.op = "get_path" /\ Target.k = "PlotlyDict")
         => last.err = "none" /\ last.ret = RawList(last.path)
    /\ (last.op = "get_parents" /\ Target.k = "PlotlyDict")
         => /\ last.err = "none"
            /\ last.ret = RawList([i \in 1..Len(last.path) |->
                                      NodeAt(root, SubSeq(last.path, 1, i - 1))])

(* the name a trace is expected to get: its own name, trace_<index> when it
   has none, and with the first free suffix when that name is taken *)
FirstFree(name, taken) ==
    Suffixed(name,
             CHOOSE j \in 1..(Len(taken) + 1) :
                 /\ ~InSeq(Suffixed(name, j), taken)
                 /\ \A h \in 1..(j - 1) : InSeq(Suffixed(name, h), taken))

RECURSIVE ExpectedNames(_, _, _)
ExpectedNames(names, i, taken) ==
    IF i > Len(names) THEN taken
    ELSE LET own == IF names[i] = NoArg THEN Str("trace_" \o ToString(i - 1))
                    ELSE names[i]
         IN  ExpectedNames(names, i + 1,
                 Append(taken, IF InSeq(own, taken) THEN FirstFree(own, taken)
                               ELSE own))

(* the names the traces of a trace container carry, NoArg for none *)
OwnNames(data) ==
    [i \in 1..Len(data.l) |->
        IF "name" \in DOMAIN data.l[i].d THEN data.l[i].d["name"] ELSE NoArg]

(* C26: get_data(flatten=True) on a root trace container whose traces each
   hold an x returns, for every input: each trace has its x under the prefix
   of its name (its own name, else trace_<index>, with the first free suffix
   _1, _2, ... when that name is taken by an earlier trace), and the
   prefixes of the traces are pairwise distinct, so that the result holds
   one x entry for each trace. *)
C26_FlattenNamesDistinct ==
    (/\ last.op = "get_data_flat" /\ last.path = <<>> /\ prev.name = "data"
     /\ \A i \in 1..Len(prev.l) : "x" \in DOMAIN prev.l[i].d)
    => /\ last.err = "none"
       /\ KeysIn(last.ret.v) =
              {Dot(Format(ExpectedNames(OwnNames(prev), 1, <<>>)[i]), "x") :
                  i \in 1..Len(prev.l)}
       /\ Cardinality(KeysIn(last.ret.v)) = Len(prev.l)

(* C27: get_data is a pure read: after the call the tree is what it was
   before, with the same keys, the same elements in every Indexed Node and
   the same values. *)
C27_GetDataIsPure ==
    last.op \in {"get_data", "get_data_flat"} => root = prev

(* the data of a figure, the empty sequence when it has none *)
DataOf(fig) == IF "data" \in DOMAIN fig.d THEN fig.d["data"].l ELSE <<>>

(* C28: when Figure.append_trace raises, the data of the figure is what it
   was before and holds only trace nodes; when it returns, the data is one
   element longer, its elements before the last are unchanged and the last
   is a trace node with the xaxis and yaxis of the cell of the grid. *)
C28_AppendTraceAtomic ==
    last.op = "append_trace"
    => IF last.err # "none"
       THEN /\ DataOf(root) = DataOf(prev)
            /\ \A i \in 1..Len(DataOf(root)) :
                   /\ IsPlotlyBase(DataOf(root)[i])
                   /\ DataOf(root)[i].name \in TRACE_NAMES
       ELSE /\ Len(DataOf(root)) = Len(DataOf(prev)) + 1
            /\ SubSeq(DataOf(root), 1, Len(DataOf(prev))) = DataOf(prev)
            /\ IsPlotlyBase(DataOf(root)[Len(DataOf(root))])
            /\ DataOf(root)[Len(DataOf(root))].name \in TRACE_NAMES
            /\ {"xaxis", "yaxis"}
                   \subseteq DOMAIN DataOf(root)[Len(DataOf(root))].d
            /\ DataOf(root)[Len(DataOf(root))].d["xaxis"]
                   = Str(grid_ref[1][1][1])
            /\ DataOf(root)[Len(DataOf(root))].d["yaxis"]
                   = Str(grid_ref[1][1][2])

(* every node stored in the tree has the container that stores it as its
   parent, and the key it is stored under as its parent key *)
ParentsSet(tree) ==
    /\ \A node \in Dicts(tree) : \A key \in DOMAIN node.d :
           IsPlotlyBase(node.d[key])
           => node.d[key].parent = node.name /\ node.d[key].pkey = key
    /\ \A node \in Lists(tree) : \A i \in 1..Len(node.l) :
           IsPlotlyBase(node.l[i]) => node.l[i].parent = node.name

(* C29: copying a node, Keyed or Indexed, empty or not, raises nothing and
   returns a new root node of the same declared name with equal content, in
   which every child node has its container in the copy as its parent. *)
C29_CopyIsFreshTree ==
    last.op = "copy"
    => /\ last.err = "none"
       /\ IsPlotlyBase(last.ret)
       /\ last.ret.k = Target.k
       /\ last.ret.name = Target.name
       /\ last.ret.parent = "None"
       /\ Content(last.ret) = Content(Target)
       /\ ParentsSet(last.ret)
       /\ root = prev

(* C30: every node that is an element of the trace container holds a type
   entry equal to its declared name: the stored type and the class the
   element was dispatched to never disagree. *)
C30_TypeMatchesClass ==
    \A node \in {n \in Lists(root) : n.name = "data"} :
        \A i \in 1..Len(node.l) :
            IsPlotlyBase(node.l[i])
            => /\ "type" \in DOMAIN node.l[i].d
               /\ node.l[i].d["type"] = Str(node.l[i].name)
====
